---- MODULE Spec2Model ----
(***************************************************************************)
(* The IMAP command parser and session state machine of gromox             *)
(* (mra/imap/imap_cmd_parser.cpp): the per-connection context, the MIDB    *)
(* index and the maildir files it acts on, and one action per command      *)
(* handler.  Handlers are operators from the context and the command's     *)
(* inputs (arguments and the outcomes of the collaborators they call) to   *)
(* the new context, the packed return code and the effects on MIDB, the    *)
(* maildir and the notification hub.                                       *)
(***************************************************************************)
EXTENDS Integers, Sequences, FiniteSets, TLC

\* ------------------------------------------------------------- bounds
MaxMails == 2         \* messages a folder holds in an initial state
MaxAuthCfg == 2       \* largest max_auth_times a configuration draws
MaxUid == 2           \* largest next UID of a folder that is copied to
MaxAppends == 2       \* message ids handed out to APPEND
MaxFolders == 3       \* folders a store holds when CREATE is taken
MaxLen == 3           \* longest name and longest pattern given to the matcher
MaxDigits == 2        \* digits of the numbers of a partial FETCH
WordBits == 5         \* bits of size_t in the arithmetic of a partial FETCH

VARIABLES
    ctx,      \* imap_context: the session's fields
    closed,   \* the connection has been closed and the context cleared
    cfg,      \* g_support_tls, g_force_tls, g_max_auth_times
    hub,      \* sessions registered with the notification hub
    banned,   \* user names handed to system_services_ban_user
    midb,     \* the MIDB index of the session's maildir
    fs,       \* maildir files: eml/<mid> and tmp/<mid>
    cmd,      \* the command line last dispatched, with its inputs
    reply,    \* the tagged (or continuation) line last written
    untagged, \* the lines the echo point of that command wrote before it
    peer      \* a second session of the store's owner

vars == <<ctx, closed, cfg, hub, banned, midb, fs, cmd, reply, untagged, peer>>

\* ------------------------------------------------------- users, folders
Me == "S1"
NoTarget == ""
Users == {"alice", "bob", "carol"}
Targets == Users \cup {"ghost"}

\* sql_meta_result as the authentication service fills it in; carol's
\* account has no maildir, bob's no language.
sql_meta(u) ==
    [username |-> u,
     maildir  |-> IF u = "carol" THEN "" ELSE "/var/" \o u,
     lang     |-> IF u = "bob" THEN "" ELSE "de"]

default_lang == "en"

Tags == {"a1", "a2"}
CmdTags == {"a3"}

\* Folder names are strings of characters.
INBOX == <<"I", "N", "B", "O", "X">>
Work  == <<"W", "o", "r", "k">>
Slash == <<"/">>
Amp   == <<"&">>

\* ------------------------------------------------------------- replies
NoLine == [tag |-> "", code |-> 0, text |-> ""]
Line(tag, code, text) == [tag |-> tag, code |-> code, text |-> text]

\* The word a reply of the code table begins with: the codes from 1700
\* are OK, those from 1800 BAD and those from 1900 NO.
imap_code_class(code) ==
    CASE code \in 1700..1799 -> "OK"
      [] code \in 1800..1899 -> "BAD"
      [] code \in 1900..1999 -> "NO"
      [] OTHER -> ""

\* The packed dispatch code: value, DISPATCH_MIDB, DISPATCH_TAG, action.
Ret(code, act, usetag) ==
    [code |-> code, midb |-> FALSE, tag |-> usetag, act |-> act]

MIDB_E_NO_FOLDER == 3

MidbResults ==
    {"OK", "NO_SERVER", "RDWR_ERROR", "RESULT_ERROR", "LOCAL_ENOMEM",
     "TOO_MANY_RESULTS"}

\* m2icode: a MIDB result (and errno) to a return code; 0 for success.
m2icode(r, e) ==
    CASE r = "OK"               -> [code |-> 0, midb |-> FALSE]
      [] r = "NO_SERVER"        -> [code |-> 1905, midb |-> FALSE]
      [] r = "RDWR_ERROR"       -> [code |-> 1906, midb |-> FALSE]
      [] r = "RESULT_ERROR"     -> [code |-> e, midb |-> TRUE]
      [] r = "LOCAL_ENOMEM"     -> [code |-> 1920, midb |-> FALSE]
      [] r = "TOO_MANY_RESULTS" -> [code |-> 1921, midb |-> FALSE]
      [] OTHER                  -> [code |-> 1919, midb |-> FALSE]

IsZero(m) == m.code = 0 /\ ~m.midb
MRet(m, act, usetag) ==
    [code |-> m.code, midb |-> m.midb, tag |-> usetag, act |-> act]

tag_or_bug(s) == IF s # "" THEN s ELSE "BUG"

\* dval that tags every line with the tag of the command at hand.
dval_current_tag(c, argtag, ret) ==
    IF ret.code = 0
    THEN [line |-> NoLine, act |-> ret.act]
    ELSE [line |-> Line(IF argtag = "" THEN "*" ELSE tag_or_bug(argtag),
                        IF ret.midb THEN 1907 ELSE ret.code,
                        IF ret.code = MIDB_E_NO_FOLDER
                        THEN "NO [TRYCREATE]" ELSE ""),
          act |-> ret.act]
\* imap_cmd_parser_dval: unpack a return code, compose the reply line.
imap_cmd_parser_dval(c, argtag, ret) ==
    IF ret.code = 0
    THEN [line |-> NoLine, act |-> ret.act]
    ELSE LET trycreate == ret.code = MIDB_E_NO_FOLDER
             code == IF ret.midb THEN 1907 ELSE ret.code
             tag  == IF ret.tag THEN tag_or_bug(c.tag_string)
                     ELSE IF argtag = "" THEN "*" ELSE tag_or_bug(argtag)
         IN [line |-> Line(tag, code,
                           IF trycreate THEN "NO [TRYCREATE]" ELSE ""),
             act |-> ret.act]

\* ------------------------------------------------------------- context
InitCtx ==
    [sid |-> Me, proto_stat |-> "noauth", sched_stat |-> "rdcmd", ssl |-> FALSE,
     username |-> [name |-> "", target |-> NoTarget],
     maildir |-> "", lang |-> "", tag_string |-> "", auth_times |-> 0,
     selected_folder |-> <<>>, b_readonly |-> FALSE,
     contents |-> [m_vec |-> <<>>, n_recent |-> 0, firstunseen |-> 0],
     mid |-> "", file_path |-> "", message_fd |-> FALSE,
     b_modify |-> FALSE, f_expunged_uids |-> {}, f_flags |-> {},
     echoed |-> <<>>]

is_authed(c) == c.proto_stat \in {"auth", "select"}

PhaseRank(p) ==
    CASE p = "noauth" -> 1 [] p = "username" -> 2 [] p = "password" -> 3
      [] p = "auth" -> 4 [] p = "select" -> 5

\* What a handler hands back: the context, the return code, a line the
\* handler wrote itself, the collaborators' state after its calls, and
\* what it resolved on the way: the view positions read, the UIDs found,
\* the (source, destination) UID pairs and the UIDVALIDITY it reports,
\* the source set as the COPYUID trailer prints it, and the UIDNEXT it
\* reports.
\* The maildir: eml/ and tmp/ by message id, what the header of the
\* scratch file says, and the sequence ID the next message id is made of.
NoScratch == [folder |-> <<>>, flags |-> {}]
Files(emls) == [eml |-> emls, tmp |-> {}, scratch |-> NoScratch, seq |-> 1]
NoFiles == Files({})

NoInfo ==
    [deref |-> {}, uids |-> {}, pairs |-> <<>>, uidvalidity |-> 0,
     names |-> {}, calls |-> <<>>, src |-> <<>>, uidnext |-> 0]

\* The broadcasts a handler hands to the hub: the folders touched, and
\* the UIDs of the selected folder whose flags changed or that were
\* expunged, in the order of the calls.
NoNotes == [touch |-> {}, flags |-> <<>>, expunge |-> <<>>]

Res(c, ret) ==
    [ctx |-> c, ret |-> ret, out |-> NoLine, hub |-> hub, midb |-> midb,
     fs |-> fs, ban |-> {}, info |-> NoInfo, notes |-> NoNotes]

\* ----------------------------------------------------- folder names
Lower == <<"a","b","c","d","e","f","g","h","i","j","k","l","m",
           "n","o","p","q","r","s","t","u","v","w","x","y","z">>
Upper == <<"A","B","C","D","E","F","G","H","I","J","K","L","M",
           "N","O","P","Q","R","S","T","U","V","W","X","Y","Z">>
HexDigits == <<"0","1","2","3","4","5","6","7","8","9","a","b","c","d","e","f">>

HX_toupper(ch) ==
    IF \E i \in 1..Len(Lower) : Lower[i] = ch
    THEN Upper[CHOOSE i \in 1..Len(Lower) : Lower[i] = ch]
    ELSE ch

strcasecmp_eq(s, t) ==
    /\ Len(s) = Len(t)
    /\ \A i \in 1..Len(s) : HX_toupper(s[i]) = HX_toupper(t[i])

\* The byte value of an ASCII character of a folder name.
Ord(ch) ==
    CASE \E i \in 1..26 : Upper[i] = ch ->
              64 + (CHOOSE i \in 1..26 : Upper[i] = ch)
      [] \E i \in 1..26 : Lower[i] = ch ->
              96 + (CHOOSE i \in 1..26 : Lower[i] = ch)
      [] \E i \in 1..10 : HexDigits[i] = ch ->
              47 + (CHOOSE i \in 1..10 : HexDigits[i] = ch)
      [] ch = " " -> 32 [] ch = "%" -> 37 [] ch = "&" -> 38
      [] ch = "*" -> 42 [] ch = "-" -> 45 [] ch = "/" -> 47
      [] ch = "?" -> 63

Chr(n) ==
    CASE n \in 65..90 -> Upper[n - 64]
      [] n \in 97..122 -> Lower[n - 96]
      [] n \in 48..57 -> HexDigits[n - 47]
      [] n = 32 -> " " [] n = 37 -> "%" [] n = 38 -> "&"
      [] n = 42 -> "*" [] n = 45 -> "-" [] n = 47 -> "/"
      [] n = 63 -> "?"
      [] OTHER -> "\\x"

RECURSIVE encode_hex_binary(_)
encode_hex_binary(s) ==
    IF s = <<>> THEN <<>>
    ELSE <<HexDigits[(Ord(Head(s)) \div 16) + 1],
           HexDigits[(Ord(Head(s)) % 16) + 1]>> \o encode_hex_binary(Tail(s))

HexVal(ch) ==
    IF \E i \in 1..16 : HexDigits[i] = ch
    THEN (CHOOSE i \in 1..16 : HexDigits[i] = ch) - 1
    ELSE IF \E i \in 1..6 : Upper[i] = ch
    THEN 9 + (CHOOSE i \in 1..6 : Upper[i] = ch)
    ELSE -1

\* decode_hex_binary: [ok, s]; fails on an odd length or a non-hex digit.
RECURSIVE decode_hex_binary(_)
decode_hex_binary(s) ==
    IF s = <<>> THEN [ok |-> TRUE, s |-> <<>>]
    ELSE IF Len(s) = 1 \/ HexVal(s[1]) < 0 \/ HexVal(s[2]) < 0
    THEN [ok |-> FALSE, s |-> <<>>]
    ELSE CHOOSE y \in
            {[ok |-> rest.ok,
              s |-> <<Chr(16 * HexVal(s[1]) + HexVal(s[2]))>> \o rest.s] :
                rest \in {decode_hex_binary(SubSeq(s, 3, Len(s)))}} : TRUE

\* mutf7_to_utf8 on ASCII names: "&-" stands for "&"; any other "&" opens
\* a base64 run, which no name drawn here completes.
RECURSIVE mutf7_to_utf8(_)
mutf7_to_utf8(s) ==
    IF s = <<>> THEN [ok |-> TRUE, s |-> <<>>]
    ELSE IF Head(s) = "&"
    THEN IF Len(s) >= 2 /\ s[2] = "-"
         THEN CHOOSE y \in
                 {[ok |-> rest.ok, s |-> <<"&">> \o rest.s] :
                     rest \in {mutf7_to_utf8(SubSeq(s, 3, Len(s)))}} : TRUE
         ELSE [ok |-> FALSE, s |-> <<>>]
    ELSE CHOOSE y \in
            {[ok |-> rest.ok, s |-> <<Head(s)>> \o rest.s] :
                rest \in {mutf7_to_utf8(Tail(s))}} : TRUE

\* utf8_to_mutf7 on ASCII names: "&" is written "&-".
RECURSIVE utf8_to_mutf7(_)
utf8_to_mutf7(s) ==
    IF s = <<>> THEN <<>>
    ELSE (IF Head(s) = "&" THEN <<"&", "-">> ELSE <<Head(s)>>)
         \o utf8_to_mutf7(Tail(s))

S_inbox == <<"i","n","b","o","x">>
S_draft == <<"d","r","a","f","t">>
S_sent  == <<"s","e","n","t">>
S_trash == <<"t","r","a","s","h">>
S_junk  == <<"j","u","n","k">>

\* folder_namedb: the display names of the special folders.
foldername_get(lang, fid) ==
    CASE fid = "DRAFT"   -> <<"D","r","a","f","t","s">>
      [] fid = "SENT"    -> <<"S","e","n","t"," ","I","t","e","m","s">>
      [] fid = "DELETED" -> <<"D","e","l","e","t","e","d"," ","I","t","e","m","s">>
      [] fid = "JUNK"    -> <<"J","u","n","k"," ","E","-","m","a","i","l">>

special_folder(name) ==
    \/ strcasecmp_eq(name, S_inbox)
    \/ name \in {S_draft, S_sent, S_trash, S_junk}

\* strchr(s, '/'): the position of the first '/', 0 when there is none.
SlashPos(s) ==
    IF \E i \in 1..Len(s) : s[i] = "/"
    THEN CHOOSE i \in 1..Len(s) : s[i] = "/" /\ \A j \in 1..(i-1) : s[j] # "/"
    ELSE 0

imapfolder_to_sysfolder_of(lang, d) ==
    LET temp_name == IF Len(d.s) > 0 /\ d.s[Len(d.s)] = "/"
                     THEN SubSeq(d.s, 1, Len(d.s) - 1) ELSE d.s
        pos == SlashPos(temp_name)
        frag == IF pos = 0 THEN temp_name ELSE SubSeq(temp_name, 1, pos - 1)
        ptoken == IF pos = 0 THEN <<>> ELSE SubSeq(temp_name, pos, Len(temp_name))
        left_frag ==
            IF strcasecmp_eq(frag, INBOX) THEN S_inbox
            ELSE IF frag = foldername_get(lang, "DRAFT") THEN S_draft
            ELSE IF frag = foldername_get(lang, "SENT") THEN S_sent
            ELSE IF frag = foldername_get(lang, "DELETED") THEN S_trash
            ELSE IF frag = foldername_get(lang, "JUNK") THEN S_junk
            ELSE frag
    IN IF ~d.ok THEN [ok |-> FALSE, s |-> <<>>]
       ELSE IF pos # 0
       THEN [ok |-> TRUE, s |-> encode_hex_binary(left_frag \o ptoken)]
       ELSE IF special_folder(left_frag) THEN [ok |-> TRUE, s |-> left_frag]
       ELSE [ok |-> TRUE, s |-> encode_hex_binary(left_frag)]

imap_cmd_parser_imapfolder_to_sysfolder(lang, imap_folder) ==
    CHOOSE y \in {imapfolder_to_sysfolder_of(lang, d) :
                     d \in {mutf7_to_utf8(imap_folder)}} : TRUE

sysfolder_to_imapfolder_of(lang, sys_folder, d) ==
    LET pos == SlashPos(d.s)
        frag == IF pos = 0 THEN d.s ELSE SubSeq(d.s, 1, pos - 1)
        ptoken == IF pos = 0 THEN <<>> ELSE SubSeq(d.s, pos, Len(d.s))
        left_frag ==
            IF frag = S_inbox THEN INBOX
            ELSE IF frag = S_draft THEN foldername_get(lang, "DRAFT")
            ELSE IF frag = S_sent THEN foldername_get(lang, "SENT")
            ELSE IF frag = S_trash THEN foldername_get(lang, "DELETED")
            ELSE IF frag = S_junk THEN foldername_get(lang, "JUNK")
            ELSE frag
        m == utf8_to_mutf7(left_frag \o ptoken)
    IN IF sys_folder = S_inbox THEN [ok |-> TRUE, s |-> INBOX]
       ELSE IF sys_folder = S_draft
       THEN [ok |-> TRUE, s |-> utf8_to_mutf7(foldername_get(lang, "DRAFT"))]
       ELSE IF sys_folder = S_sent
       THEN [ok |-> TRUE, s |-> utf8_to_mutf7(foldername_get(lang, "SENT"))]
       ELSE IF sys_folder = S_trash
       THEN [ok |-> TRUE, s |-> utf8_to_mutf7(foldername_get(lang, "DELETED"))]
       ELSE IF sys_folder = S_junk
       THEN [ok |-> TRUE, s |-> utf8_to_mutf7(foldername_get(lang, "JUNK"))]
       ELSE IF ~d.ok THEN [ok |-> FALSE, s |-> <<>>]
       ELSE IF Len(m) <= 0 THEN [ok |-> FALSE, s |-> <<>>]
       ELSE [ok |-> TRUE, s |-> m]

imap_cmd_parser_sysfolder_to_imapfolder(lang, sys_folder) ==
    CHOOSE y \in {sysfolder_to_imapfolder_of(lang, sys_folder, d) :
                     d \in {decode_hex_binary(sys_folder)}} : TRUE

\* ------------------------------------------------------ authentication
\* store_owner_over: may actor log in to mbox's store?  `owner' is what
\* exmdb_client::get_mbox_perm reports for frightsGromoxStoreOwner.
store_owner_any(actor, mbox, owner) == TRUE

store_owner_over(actor, mbox, owner) ==
    IF actor = mbox THEN TRUE ELSE owner

starttls_any_phase(c) ==
    IF c.ssl \/ ~cfg.support_tls THEN Res(c, Ret(1800, "CONTINUE", FALSE))
    ELSE Res([c EXCEPT !.sched_stat = "stls"], Ret(1704, "CONTINUE", FALSE))

imap_cmd_parser_starttls(c) ==
    IF c.ssl THEN Res(c, Ret(1800, "CONTINUE", FALSE))
    ELSE IF ~cfg.support_tls THEN Res(c, Ret(1800, "CONTINUE", FALSE))
    ELSE IF PhaseRank(c.proto_stat) > PhaseRank("noauth")
    THEN Res(c, Ret(1801, "CONTINUE", FALSE))
    ELSE Res([c EXCEPT !.sched_stat = "stls"], Ret(1704, "CONTINUE", FALSE))

\* The TLS gate LOGIN and AUTHENTICATE start with.
tls_required(c) == cfg.support_tls /\ cfg.force_tls /\ ~c.ssl

authenticate_again(c, tag, a) ==
    IF tls_required(c) THEN Res(c, Ret(1802, "CONTINUE", FALSE))
    ELSE IF a.bad THEN Res(c, Ret(1800, "CONTINUE", FALSE))
    ELSE [Res([c EXCEPT !.tag_string = tag, !.proto_stat = "username"],
              Ret(0, "CONTINUE", FALSE))
          EXCEPT !.out = Line("+", 0, "VXNlciBOYW1lAA==")]

imap_cmd_parser_authenticate(c, tag, a) ==
    IF tls_required(c) THEN Res(c, Ret(1802, "CONTINUE", FALSE))
    ELSE IF a.bad THEN Res(c, Ret(1800, "CONTINUE", FALSE))
    ELSE IF is_authed(c) THEN Res(c, Ret(1803, "CONTINUE", FALSE))
    ELSE [Res([c EXCEPT !.tag_string = tag, !.proto_stat = "username"],
              Ret(0, "CONTINUE", FALSE))
          EXCEPT !.out = Line("+", 0, "VXNlciBOYW1lAA==")]

\* username2 that leaves the phase as it is when the line does not decode.
username2_stays(c, a) ==
    IF ~a.b64ok
    THEN Res(c, Ret(1819, "CONTINUE", TRUE))
    ELSE [Res([c EXCEPT !.username = [name |-> a.p, target |-> a.t],
                        !.proto_stat = "password"],
              Ret(0, "CONTINUE", FALSE))
          EXCEPT !.out = Line("+", 0, "UGFzc3dvcmQA")]
imap_cmd_parser_username2(c, a) ==
    IF ~a.b64ok
    THEN Res([c EXCEPT !.proto_stat = "noauth"], Ret(1819, "CONTINUE", TRUE))
    ELSE [Res([c EXCEPT !.username = [name |-> a.p, target |-> a.t],
                        !.proto_stat = "password"],
              Ret(0, "CONTINUE", FALSE))
          EXCEPT !.out = Line("+", 0, "UGFzc3dvcmQA")]

no_count(c) == c

\* ++pcontext->auth_times: one more failed authentication.
count_failure(c) == [c EXCEPT !.auth_times = @ + 1]

\* The tail LOGIN and the password step share: copy the meta result of the
\* mailbox logged in to into the context.
adopt(c, mres) ==
    [c EXCEPT !.username = [name |-> mres.username, target |-> NoTarget],
              !.maildir = mres.maildir, !.lang = mres.lang]

with_lang(c) ==
    [c EXCEPT !.lang = IF c.lang = "" THEN default_lang ELSE c.lang,
              !.proto_stat = "auth"]

imap_cmd_parser_password2(c, a) ==
    LET c0 == [c EXCEPT !.proto_stat = "noauth"]
        target == c.username.target
        c1 == [c0 EXCEPT !.username.target = NoTarget]
        actor == c1.username.name
        c2 == count_failure(c1)
        failed == IF c2.auth_times < cfg.max_auth_times
                  THEN Res(c2, Ret(1904, "CONTINUE", TRUE))
                  ELSE [Res(c2, Ret(1903, "CLOSE", TRUE))
                        EXCEPT !.ban = {actor}]
        c3 == adopt(c1, sql_meta(IF target = NoTarget THEN actor ELSE target))
    IN IF ~a.b64ok THEN Res(c0, Ret(1820, "CONTINUE", TRUE))
       ELSE IF ~a.judge THEN Res(c1, Ret(1901, "CLOSE", TRUE))
       ELSE IF ~a.pwok THEN failed
       ELSE IF target # NoTarget /\ target \notin Users
       THEN Res(c1, Ret(1902, "CONTINUE", TRUE))
       ELSE IF target # NoTarget /\ ~store_owner_over(actor, target, a.owner)
       THEN failed
       ELSE IF c3.maildir = "" THEN Res(c3, Ret(1902, "CONTINUE", TRUE))
       ELSE [Res(with_lang(c3), Ret(0, "CONTINUE", FALSE))
             EXCEPT !.out = Line(tag_or_bug(c.tag_string), 0, "OK Logged in")]

imap_cmd_parser_login(c, tag, a) ==
    LET c1 == [c EXCEPT !.username = [name |-> a.p, target |-> NoTarget]]
        c2 == count_failure(c1)
        banned_out == [Res(c2, Ret(1903, "CLOSE", FALSE)) EXCEPT !.ban = {a.p}]
        c3 == adopt(c1, sql_meta(IF a.t = NoTarget THEN a.p ELSE a.t))
    IN IF tls_required(c) THEN Res(c, Ret(1802, "CONTINUE", FALSE))
       ELSE IF a.bad THEN Res(c, Ret(1800, "CONTINUE", FALSE))
       ELSE IF is_authed(c) THEN Res(c, Ret(1803, "CONTINUE", FALSE))
       ELSE IF ~a.judge THEN Res(c1, Ret(1901, "CLOSE", FALSE))
       ELSE IF ~a.pwok
       THEN IF c2.auth_times < cfg.max_auth_times
            THEN Res([c2 EXCEPT !.tag_string = tag], Ret(1904, "CONTINUE", TRUE))
            ELSE banned_out
       ELSE IF a.t # NoTarget /\ a.t \notin Users
       THEN Res(c1, Ret(1902, "CONTINUE", TRUE))
       ELSE IF a.t # NoTarget /\ ~store_owner_over(a.p, a.t, a.owner)
       THEN IF c2.auth_times < cfg.max_auth_times
            THEN Res(c2, Ret(1904, "CONTINUE", TRUE))
            ELSE banned_out
       ELSE IF c3.maildir = "" THEN Res(c3, Ret(1902, "CONTINUE", FALSE))
       ELSE Res(with_lang(c3), Ret(1705, "CONTINUE", FALSE))

imap_cmd_parser_logout(c, tag) ==
    [Res(c, Ret(0, "CLOSE", FALSE)) EXCEPT !.out = Line(tag, 1703, "")]


\* ------------------------------------------------------------- MIDB
\* A MIDB call's outcome as the agent hands it to the handler: a result
\* and, with RESULT_ERROR, the errno MIDB sent.
MidbOk == [r |-> "OK", e |-> 0]
MidbFailures ==
    {[r |-> "RDWR_ERROR", e |-> 0],
     [r |-> "RESULT_ERROR", e |-> MIDB_E_NO_FOLDER]}
MidbOutcomes == {MidbOk} \cup MidbFailures
MidbDown == [r |-> "RDWR_ERROR", e |-> 0]

\* A call naming a folder MIDB does not hold fails with "no such folder".
midb_call(m, folder, o) ==
    IF o.r = "OK" /\ folder \notin m.folders
    THEN [r |-> "RESULT_ERROR", e |-> MIDB_E_NO_FOLDER]
    ELSE o

MailsOf(m, folder) ==
    IF folder \in DOMAIN m.mails THEN m.mails[folder] ELSE <<>>

\* list_deleted: the folder's messages that carry \Deleted.
list_deleted(m, folder) ==
    SelectSeq(MailsOf(m, folder), LAMBDA x : "D" \in x.flags)

\* remove_mail: the folder without the messages named by mid.
remove_mail(m, folder, mids) ==
    IF folder \in DOMAIN m.mails
    THEN [m EXCEPT !.mails[folder] = SelectSeq(@, LAMBDA x : x.mid \notin mids)]
    ELSE m

\* --------------------------------------------------- selected-folder view
get_itemx(vec, uid) == {i \in 1..Len(vec) : vec[i].uid = uid}

\* The appended item numbered from 0.
new_item_from_zero(vec, newmail) ==
    [uid |-> newmail.uid, mid |-> newmail.mid, flag_bits |-> newmail.flags, id |-> Len(vec)]
\* The item appended for a message of the listing: m_vec[start].id is
\* start + 1, start the size of the view before.
new_item(vec, newmail) ==
    [uid |-> newmail.uid, mid |-> newmail.mid, flag_bits |-> newmail.flags, id |-> Len(vec) + 1]

RECURSIVE append_new(_, _)
append_new(vec, xa) ==
    IF xa = <<>> THEN vec
    ELSE IF get_itemx(vec, Head(xa).uid) # {} THEN append_new(vec, Tail(xa))
    ELSE append_new(Append(vec, new_item(vec, Head(xa))), Tail(xa))

\* The listing numbered from 1 whatever was asked.
refreshed_renumbering(vec, xa, fresh_numbers) ==
    [i \in 1..Len(xa) |-> [uid |-> xa[i].uid, mid |-> xa[i].mid, flag_bits |-> xa[i].flags, id |-> i]]
\* The view after a listing that MIDB answered: the listing numbered
\* from 1, or the view with the unknown messages of the listing behind.
refreshed(vec, xa, fresh_numbers) ==
    IF fresh_numbers
    THEN [i \in 1..Len(xa) |-> [uid |-> xa[i].uid, mid |-> xa[i].mid, flag_bits |-> xa[i].flags, id |-> i]]
    ELSE append_new(vec, xa)

\* content_array::refresh: [ret, contents].
refresh(cont, m, folder, fresh_numbers, o) ==
    LET eff == midb_call(m, folder, o)
        ret == m2icode(eff.r, eff.e)
        xa  == MailsOf(m, folder)
        vec == refreshed(cont.m_vec, xa, fresh_numbers)
        unseen == {i \in 1..Len(vec) : "S" \notin vec[i].flag_bits}
    IN IF ~IsZero(ret) THEN [ret |-> ret, contents |-> cont]
       ELSE [ret |-> ret,
             contents |->
                [m_vec |-> vec,
                 n_recent |-> Cardinality({i \in 1..Len(vec) :
                                              "R" \in vec[i].flag_bits}),
                 firstunseen |-> IF unseen = {} THEN 0
                                 ELSE CHOOSE i \in unseen :
                                         \A j \in unseen : i <= j]]

\* ------------------------------------------------------ notifications
\* imap_parser_bcast_touch: every session registered on the folder, the
\* originator excepted, is marked as having changes to pick up.
bcast_touch(c, h, originator, folder) ==
    IF c.sid \in h /\ ~originator /\ c.selected_folder = folder
    THEN [c EXCEPT !.b_modify = TRUE]
    ELSE c

\* imap_parser_bcast_expunge: every session registered on the folder is
\* handed the UIDs expunged.
bcast_expunge(c, h, uids) ==
    IF c.sid \in h THEN [c EXCEPT !.f_expunged_uids = @ \cup uids] ELSE c

RECURSIVE downward(_)
upward(S) ==
    CHOOSE f \in [1..Cardinality(S) -> S] :
       \A i \in DOMAIN f, j \in DOMAIN f : i < j => f[i] < f[j]

\* The numbers of a set, largest first.
downward(S) ==
    IF S = {} THEN <<>>
    ELSE LET x == CHOOSE x \in S : \A y \in S : y <= x
         IN <<x>> \o downward(S \ {x})

\* An untagged line: "* n EXISTS", "* n RECENT", "* n EXPUNGE" or
\* "* n FETCH (UID uid FLAGS (flags))".
Untagged(kind, n, uid, flags) ==
    [kind |-> kind, n |-> n, uid |-> uid, flags |-> flags]

\* n_recent and firstunseen of a view.
counted(vec) ==
    LET unseen == {i \in 1..Len(vec) : "S" \notin vec[i].flag_bits}
    IN [m_vec |-> vec,
        n_recent |-> Cardinality({i \in 1..Len(vec) :
                                     "R" \in vec[i].flag_bits}),
        firstunseen |-> IF unseen = {} THEN 0
                        ELSE CHOOSE i \in unseen : \A j \in unseen : i <= j]

\* The places of the message of that UID among the messages MIDB holds.
held(xs, uid) == {k \in 1..Len(xs) : xs[k].uid = uid}

\* The messages that stay in the view, numbered anew, those whose flags
\* were noted with the flags MIDB holds.
renumbered(kept, xs, noted) ==
    [i \in 1..Len(kept) |->
        IF kept[i].uid \in noted /\ held(xs, kept[i].uid) # {}
        THEN [kept[i] EXCEPT
                !.id = i,
                !.flag_bits = xs[CHOOSE k \in held(xs, kept[i].uid) : TRUE].flags]
        ELSE [kept[i] EXCEPT !.id = i]]

\* The totals that changed since the last echo point.
echo_totals(c, cont) ==
    (IF Len(cont.m_vec) # Len(c.contents.m_vec)
     THEN <<Untagged("EXISTS", Len(cont.m_vec), 0, {})>> ELSE <<>>)
    \o (IF cont.n_recent # c.contents.n_recent
        THEN <<Untagged("RECENT", cont.n_recent, 0, {})>> ELSE <<>>)

\* The lines of an echo point: the totals, the expunged with the largest
\* number first, and the messages whose flags were noted.
echo_lines(c, cont, xs, vec) ==
    LET gone == downward({i \in 1..Len(cont.m_vec) :
                             cont.m_vec[i].uid \in c.f_expunged_uids})
        told == SelectSeq(vec, LAMBDA x : x.uid \in c.f_flags
                                          /\ held(xs, x.uid) # {})
    IN echo_totals(c, cont)
       \o [k \in 1..Len(gone) |-> Untagged("EXPUNGE", gone[k], 0, {})]
       \o [k \in 1..Len(told) |->
             Untagged("FETCH", told[k].id, told[k].uid, told[k].flag_bits)]

echo_view(c, cont, xs, vec) ==
    IF c.f_expunged_uids = {} /\ c.f_flags = {}
    THEN [c EXCEPT !.b_modify = FALSE, !.contents = cont,
                   !.echoed = @ \o echo_totals(c, cont)]
    ELSE [c EXCEPT !.b_modify = FALSE, !.f_expunged_uids = {},
                   !.f_flags = {}, !.contents = counted(vec),
                   !.echoed = @ \o echo_lines(c, cont, xs, vec)]

echo_refreshed(c, cont, xs) ==
    echo_view(c, cont, xs,
              renumbered(SelectSeq(cont.m_vec,
                                   LAMBDA x : x.uid \notin c.f_expunged_uids),
                         xs, c.f_flags))

\* imap_parser_echo_modify: the echo point.  A session marked as modified
\* refreshes its view, keeping the numbers it has, and reports the totals
\* that changed; the expunged leave the view, largest number first, and
\* the rest move down; the messages whose flags a peer changed are
\* reported with the flags MIDB holds.  MIDB answers this refresh.
echo_modify(c, m) ==
    echo_refreshed(c,
                   IF c.b_modify
                   THEN refresh(c.contents, m, c.selected_folder, FALSE,
                                MidbOk).contents
                   ELSE c.contents,
                   MailsOf(m, c.selected_folder))

\* The hub hands the broadcasts of session c to another session x when x
\* is registered for the same user and the folder the broadcast names.
deliver(x, h, c, notes) ==
    IF x.sid \notin h \/ x.username # c.username THEN x
    ELSE LET same == x.selected_folder = c.selected_folder
         IN [x EXCEPT
               !.b_modify = @ \/ x.selected_folder \in notes.touch,
               !.f_flags = IF same
                           THEN @ \cup {notes.flags[i] :
                                          i \in 1..Len(notes.flags)}
                           ELSE @,
               !.f_expunged_uids =
                   IF same
                   THEN @ \cup {notes.expunge[i] :
                                  i \in 1..Len(notes.expunge)}
                   ELSE @]

echo_if_select(c, m) ==
    IF c.proto_stat = "select" THEN echo_modify(c, m) ELSE c

\* A variant of NOOP without the echo point.
noop_without_echo(c) == Res(c, Ret(1702, "CONTINUE", FALSE))

\* NOOP: an echo point when a folder is selected.
imap_cmd_parser_noop(c) ==
    Res(echo_if_select(c, midb), Ret(1702, "CONTINUE", FALSE))

\* -------------------------------------------------- SELECT, EXAMINE, CLOSE
\* imap_parser_add_select / imap_parser_remove_select.
add_select(c, h) == h \cup {c.sid}
remove_select(c, h) == h \ {c.sid}

\* MIDB after n messages were delivered to the folder by others.
RECURSIVE delivered(_, _, _)
delivered(m, folder, n) ==
    IF n = 0 \/ folder \notin m.folders THEN m
    ELSE delivered([m EXCEPT
                      !.mails[folder] =
                          Append(@, [uid |-> m.uidnext[folder],
                                     mid |-> "d" \o ToString(m.uidnext[folder]),
                                     flags |-> {"R"}]),
                      !.uidnext[folder] = @ + 1],
                   folder, n - 1)

\* SELECT and EXAMINE.  MIDB is asked twice, by summary_folder and by
\* the refresh of the view; a.between messages are delivered to the
\* folder by others between the two calls.
imap_cmd_parser_selex(c, tag, a, readonly) ==
    LET conv == imap_cmd_parser_imapfolder_to_sysfolder(c.lang, a.name)
        was  == c.proto_stat = "select"
        c1   == IF was THEN [c EXCEPT !.proto_stat = "auth",
                                      !.selected_folder = <<>>]
                ELSE c
        hub1 == IF was THEN remove_select(c, hub) ELSE hub
        eff  == midb_call(midb, conv.s, a.o1)
        ret1 == m2icode(eff.r, eff.e)
        uidnext == IF conv.s \in midb.folders THEN midb.uidnext[conv.s]
                   ELSE 0
        midb1 == delivered(midb, conv.s, a.between)
        rf   == refresh(c1.contents, midb1, conv.s, TRUE, a.o2)
        c2   == [c1 EXCEPT !.contents = rf.contents,
                           !.selected_folder = conv.s,
                           !.proto_stat = "select",
                           !.b_readonly = readonly]
        back == imap_cmd_parser_sysfolder_to_imapfolder(c.lang, conv.s)
    IN IF ~is_authed(c) THEN Res(c, Ret(1804, "CONTINUE", FALSE))
       ELSE IF a.bad \/ Len(a.name) = 0 \/ ~conv.ok
       THEN Res(c, Ret(1800, "CONTINUE", FALSE))
       ELSE IF ~IsZero(ret1)
       THEN [Res(c1, MRet(ret1, "CONTINUE", FALSE)) EXCEPT !.hub = hub1]
       ELSE IF ~IsZero(rf.ret)
       THEN [Res(c1, MRet(rf.ret, "CONTINUE", FALSE))
             EXCEPT !.hub = hub1, !.midb = midb1]
       ELSE IF ~back.ok
       THEN [Res(c2, Ret(1800, "CONTINUE", FALSE))
             EXCEPT !.hub = add_select(c, hub1), !.midb = midb1]
       ELSE [Res(c2, Ret(0, "CONTINUE", FALSE))
             EXCEPT !.hub = add_select(c, hub1), !.midb = midb1,
                    !.info.uidnext = uidnext,
                    !.out = Line(tag, 0, IF readonly
                                         THEN "OK [READ-ONLY] EXAMINE completed"
                                         ELSE "OK [READ-WRITE] SELECT completed")]

zero_uid_bit(i) == i.uid = 0 \/ "D" \notin i.flags

\* A variant that removes the files whatever remove_mail answered.
clsfld_files_first(c, a) ==
    LET c1 == [c EXCEPT !.proto_stat = "auth", !.selected_folder = <<>>]
        prev_selected == c.selected_folder
        left == [Res(c1, Ret(0, "CONTINUE", FALSE))
                 EXCEPT !.hub = remove_select(c, hub)]
        e1 == midb_call(midb, prev_selected, a.o1)
        xarray == list_deleted(midb, prev_selected)
        exp_list == SelectSeq(xarray, LAMBDA x : ~zero_uid_bit(x))
        mids == {exp_list[i].mid : i \in 1..Len(exp_list)}
        e2 == midb_call(midb, prev_selected, a.o2)
        star(r) == Line("*", (CASE r = "NO_SERVER" -> 1905
                                [] r = "RDWR_ERROR" -> 1906
                                [] r = "LOCAL_ENOMEM" -> 1920
                                [] OTHER -> 1907), "")
    IN IF c.selected_folder = <<>> THEN Res(c, Ret(0, "CONTINUE", FALSE))
       ELSE IF c.b_readonly THEN left
       ELSE IF e1.r # "OK" THEN [left EXCEPT !.out = star(e1.r)]
       ELSE IF e2.r # "OK"
       THEN [left EXCEPT !.out = star(e2.r),
                         !.fs = [fs EXCEPT !.eml = @ \ mids]]
       ELSE [left EXCEPT !.midb = remove_mail(midb, prev_selected, mids),
                         !.fs = [fs EXCEPT !.eml = @ \ mids],
                         !.notes = IF exp_list = <<>> THEN NoNotes
                                   ELSE [NoNotes EXCEPT
                                           !.touch = {prev_selected}]]

\* imap_cmd_parser_clsfld: leave the selected folder, expunging it when it
\* was selected read-write.
imap_cmd_parser_clsfld(c, a) ==
    LET c1 == [c EXCEPT !.proto_stat = "auth", !.selected_folder = <<>>]
        prev_selected == c.selected_folder
        left == [Res(c1, Ret(0, "CONTINUE", FALSE))
                 EXCEPT !.hub = remove_select(c, hub)]
        e1 == midb_call(midb, prev_selected, a.o1)
        xarray == list_deleted(midb, prev_selected)
        exp_list == SelectSeq(xarray, LAMBDA x : ~zero_uid_bit(x))
        mids == {exp_list[i].mid : i \in 1..Len(exp_list)}
        e2 == midb_call(midb, prev_selected, a.o2)
        star(r) == Line("*", (CASE r = "NO_SERVER" -> 1905
                                [] r = "RDWR_ERROR" -> 1906
                                [] r = "LOCAL_ENOMEM" -> 1920
                                [] OTHER -> 1907), "")
    IN IF c.selected_folder = <<>> THEN Res(c, Ret(0, "CONTINUE", FALSE))
       ELSE IF c.b_readonly THEN left
       ELSE IF e1.r # "OK" THEN [left EXCEPT !.out = star(e1.r)]
       ELSE IF e2.r # "OK" THEN [left EXCEPT !.out = star(e2.r)]
       ELSE [left EXCEPT !.midb = remove_mail(midb, prev_selected, mids),
                         !.fs = [fs EXCEPT !.eml = @ \ mids],
                         !.notes = IF exp_list = <<>> THEN NoNotes
                                   ELSE [NoNotes EXCEPT
                                           !.touch = {prev_selected}]]

imap_cmd_parser_close(c, a) ==
    IF c.proto_stat # "select" THEN Res(c, Ret(1805, "CONTINUE", FALSE))
    ELSE [imap_cmd_parser_clsfld(c, a) EXCEPT !.ret = Ret(1717, "CONTINUE", FALSE)]

unselect_phase_only(c) ==
    IF c.proto_stat # "select" THEN Res(c, Ret(1805, "CONTINUE", FALSE))
    ELSE Res([c EXCEPT !.proto_stat = "auth"], Ret(1718, "CONTINUE", FALSE))

imap_cmd_parser_unselect(c) ==
    IF c.proto_stat # "select" THEN Res(c, Ret(1805, "CONTINUE", FALSE))
    ELSE [Res([c EXCEPT !.proto_stat = "auth", !.selected_folder = <<>>],
              Ret(1718, "CONTINUE", FALSE))
          EXCEPT !.hub = remove_select(c, hub)]

\* ------------------------------------------------------- sequence sets
\* The value parse_imap_seq gives a "*": the largest unsigned number,
\* written -1 here.  It is only ever compared for equality.
SEQ_STAR == -1

\* The stars of a range read as n.
star_resolved(seq, n) ==
    IF seq.lo = SEQ_STAR /\ seq.hi = SEQ_STAR THEN [lo |-> n, hi |-> n]
    ELSE IF seq.lo = SEQ_STAR THEN [lo |-> seq.hi, hi |-> n]
    ELSE IF seq.hi = SEQ_STAR THEN [lo |-> seq.lo, hi |-> n]
    ELSE seq

seqx_range_unclamped(seq, n) == star_resolved(seq, n)

\* One range of a sequence set against a view of n messages: the stars
\* resolved, then both ends clamped.
seqx_range(seq, n) ==
    LET r == star_resolved(seq, n)
    IN [lo |-> IF r.lo < 1 THEN 1 ELSE r.lo,
        hi |-> IF r.hi > n THEN n ELSE r.hi]

\* parse_imap_seqx: [err, deref, uid_list]; deref is the set of view
\* positions the loop reads, uid_list the UIDs it collects.  A read
\* outside the view yields no UID here.
parse_imap_seqx(c, a) ==
    LET n == Len(c.contents.m_vec)
        pos == UNION {LET r == seqx_range(a.seq[k], n) IN r.lo .. r.hi :
                      k \in 1..Len(a.seq)}
    IN IF a.err THEN [err |-> TRUE, deref |-> {}, uid_list |-> {}]
       ELSE [err |-> FALSE, deref |-> pos,
             uid_list |-> {c.contents.m_vec[i].uid : i \in pos \cap (1..n)}]

\* The UIDs a UID set names in a folder; MIDB reads "*" as the largest.
uid_set(xs, seq) ==
    LET top == IF xs = <<>> THEN 0 ELSE xs[Len(xs)].uid
        r(k) == star_resolved(seq[k], top)
    IN {xs[i].uid : i \in {j \in 1..Len(xs) :
            \E k \in 1..Len(seq) :
               \/ r(k).lo <= xs[j].uid /\ xs[j].uid <= r(k).hi
               \/ r(k).hi <= xs[j].uid /\ xs[j].uid <= r(k).lo}}

\* fetch_simple_uid: the folder's messages whose UID is in the set.
fetch_simple_uid(m, folder, uids) ==
    SelectSeq(MailsOf(m, folder), LAMBDA x : x.uid \in uids)

\* ----------------------------------------------------- COPY, UID COPY
\* copy_mail: the message enters the destination under the mid given and
\* the destination's next UID.
copy_mail(m, item, dst) ==
    [m EXCEPT !.mails[dst] = Append(@, [uid |-> m.uidnext[dst],
                                         mid |-> item.mid,
                                         flags |-> item.flags]),
              !.uidnext[dst] = @ + 1]

\* The copy loop from item i on: [m, i, b_copied, pairs], i the item
\* copy_mail failed on.  With in_view, items the view does not hold are
\* passed over.
RECURSIVE copy_loop(_, _, _, _, _, _, _, _)
copy_loop(m, vec, xarray, dst, failat, in_view, i, pairs) ==
    IF i > Len(xarray)
    THEN [m |-> m, i |-> i, b_copied |-> TRUE, pairs |-> pairs]
    ELSE IF in_view /\ get_itemx(vec, xarray[i].uid) = {}
    THEN copy_loop(m, vec, xarray, dst, failat, in_view, i + 1, pairs)
    ELSE IF failat = i \/ dst \notin m.folders
    THEN [m |-> m, i |-> i, b_copied |-> FALSE, pairs |-> pairs]
    ELSE copy_loop(copy_mail(m, xarray[i], dst), vec, xarray, dst, failat,
                   in_view, i + 1,
                   Append(pairs, <<xarray[i].uid, m.uidnext[dst]>>))

\* The source set of the trailer: COPY prints the UIDs it copied, UID
\* COPY the set the client gave.
copyuid_source(a, pairs, in_view) ==
    IF in_view
    THEN [i \in 1..Len(pairs) |-> [lo |-> pairs[i][1], hi |-> pairs[i][1]]]
    ELSE a.seq

\* What COPY and UID COPY do once the source messages are listed.  When
\* get_uid does not answer for the copy of item a.lost in ten tries, the
\* UIDVALIDITY is put to 0.
copy_tail(c, tag, a, xarray, dst, in_view, ok_code, no_code) ==
    LET run == copy_loop(midb, c.contents.m_vec, xarray, dst, a.failat,
                         in_view, 1, <<>>)
        lost == /\ a.lost \in 1..Len(xarray)
                /\ in_view => get_itemx(c.contents.m_vec,
                                        xarray[a.lost].uid) # {}
        uidvalidity == IF a.uv /\ dst \in midb.folders /\ ~lost
                       THEN 1 ELSE 0
        exp_list == {xarray[j].mid : j \in {k \in 1..(run.i - 1) :
                                              xarray[k].uid # 0}}
        rm == midb_call(run.m, dst, a.o_rm)
        m2 == IF run.b_copied THEN run.m
              ELSE IF rm.r = "OK" THEN remove_mail(run.m, dst, exp_list)
              ELSE run.m
        c1 == IF run.b_copied THEN echo_modify(c, m2) ELSE c
    IN [Res([c1 EXCEPT !.sched_stat = "wrlst"], Ret(0, "BREAK", FALSE))
        EXCEPT !.midb = m2,
               !.out = IF run.b_copied
                       THEN Line(tag, ok_code,
                                 IF uidvalidity # 0 THEN "COPYUID" ELSE "")
                       ELSE Line(tag, no_code, ""),
               !.info = [NoInfo EXCEPT
                            !.pairs = IF run.b_copied /\ uidvalidity # 0
                                      THEN run.pairs ELSE <<>>,
                            !.src = IF run.b_copied /\ uidvalidity # 0
                                    THEN copyuid_source(a, run.pairs, in_view)
                                    ELSE <<>>,
                            !.uidvalidity = IF run.b_copied THEN uidvalidity
                                            ELSE 0]]

imap_cmd_parser_copy(c, tag, a) ==
    LET sq   == parse_imap_seqx(c, a)
        conv == imap_cmd_parser_imapfolder_to_sysfolder(c.lang, a.dst)
        eff  == midb_call(midb, c.selected_folder, a.o1)
        ret  == m2icode(eff.r, eff.e)
        xarray == fetch_simple_uid(midb, c.selected_folder, sq.uid_list)
        seen == [NoInfo EXCEPT !.deref = sq.deref, !.uids = sq.uid_list]
        done == copy_tail(c, tag, a, xarray, conv.s, TRUE, 1722, 1916)
    IN IF c.proto_stat # "select" THEN Res(c, Ret(1805, "CONTINUE", FALSE))
       ELSE IF a.bad THEN Res(c, Ret(1800, "CONTINUE", FALSE))
       ELSE IF sq.err \/ Len(a.dst) = 0 \/ ~conv.ok
       THEN [Res(c, Ret(1800, "CONTINUE", FALSE)) EXCEPT !.info = seen]
       ELSE IF ~IsZero(ret)
       THEN [Res(c, MRet(ret, "CONTINUE", FALSE)) EXCEPT !.info = seen]
       ELSE [done EXCEPT !.info = [done.info EXCEPT !.deref = sq.deref,
                                                    !.uids = sq.uid_list]]

imap_cmd_parser_uid_copy(c, tag, a) ==
    LET conv == imap_cmd_parser_imapfolder_to_sysfolder(c.lang, a.dst)
        eff  == midb_call(midb, c.selected_folder, a.o1)
        ret  == m2icode(eff.r, eff.e)
        xarray == fetch_simple_uid(midb, c.selected_folder,
                     uid_set(MailsOf(midb, c.selected_folder), a.seq))
    IN IF c.proto_stat # "select" THEN Res(c, Ret(1805, "CONTINUE", FALSE))
       ELSE IF a.bad \/ a.err \/ Len(a.dst) = 0 \/ ~conv.ok
       THEN Res(c, Ret(1800, "CONTINUE", FALSE))
       ELSE IF ~IsZero(ret) THEN Res(c, MRet(ret, "CONTINUE", FALSE))
       ELSE copy_tail(c, tag, a, xarray, conv.s, FALSE, 1725, 1917)

\* ------------------------------------------------------ APPEND, literal
\* The message id of the next APPEND: time, sequence ID and host.
append_mid(f) == "a" \o ToString(f.seq)

\* imap_context::close_fd, unlink_file, close_and_unlink.
close_fd(c) == [c EXCEPT !.message_fd = FALSE]
unlink_file(r) ==
    [r EXCEPT !.fs.tmp = @ \ {r.ctx.file_path}, !.ctx.file_path = ""]
close_and_unlink(r) == unlink_file([r EXCEPT !.ctx = close_fd(@)])

\* The number of times APPEND asks MIDB for the new message's UID.
APPEND_POLLS == 10

\* One poll of the loop: summary_folder, and get_uid when that answered.
poll_calls(mid, ok, fail) ==
    IF ok \/ fail = "get_uid"
    THEN <<[op |-> "summary_folder", mid |-> mid, bits |-> {}],
           [op |-> "get_uid", mid |-> mid, bits |-> {}]>>
    ELSE <<[op |-> "summary_folder", mid |-> mid, bits |-> {}]>>

\* The loop that waits for the appended message to show up in MIDB, from
\* poll i on: the poll numbered seen_at is the first at which both
\* summary_folder and get_uid answer, the polls before it fail at `fail`.
\* [i, calls]: i = APPEND_POLLS when no poll answered.
RECURSIVE append_uid_poll(_, _, _, _, _)
append_uid_poll(mid, i, seen_at, fail, calls) ==
    IF i = APPEND_POLLS THEN [i |-> APPEND_POLLS, calls |-> calls]
    ELSE IF i + 1 = seen_at
    THEN [i |-> i, calls |-> calls \o poll_calls(mid, TRUE, fail)]
    ELSE CHOOSE r \in {append_uid_poll(mid, i + 1, seen_at, fail, x) : x \in {calls \o poll_calls(mid, FALSE, fail)}} : TRUE

\* The tagged OK that carries the trailer whatever the loop met.
append_reply_always(r, tag, mid, uid, a) ==
    CHOOSE x \in {[r EXCEPT
                     !.out = Line(tag, 1715, "APPENDUID"),
                     !.info = [NoInfo EXCEPT
                                 !.calls = p.calls,
                                 !.pairs = <<<<0, uid>>>>,
                                 !.uidvalidity = a.uidvalid]]
                   : p \in {append_uid_poll(mid, 0, a.seen_at, a.poll_fail, <<>>)}} : TRUE
\* The tagged OK of APPEND after the loop: the trailer with the
\* UIDVALIDITY and UID of the poll that answered, none when none did.
append_reply(r, tag, mid, uid, a) ==
    CHOOSE x \in {[r EXCEPT
                     !.out = Line(tag, 1715, IF p.i # APPEND_POLLS THEN "APPENDUID" ELSE ""),
                     !.info = [NoInfo EXCEPT
                                 !.calls = p.calls,
                                 !.pairs = IF p.i # APPEND_POLLS THEN <<<<0, uid>>>> ELSE <<>>,
                                 !.uidvalidity = IF p.i # APPEND_POLLS THEN a.uidvalid ELSE 0]]
                   : p \in {append_uid_poll(mid, 0, a.seen_at, a.poll_fail, <<>>)}} : TRUE

\* insert_mail: the message enters the folder under the next UID.
insert_mail(m, folder, mid, flags) ==
    [m EXCEPT !.mails[folder] = Append(@, [uid |-> m.uidnext[folder],
                                            mid |-> mid, flags |-> flags]),
              !.uidnext[folder] = @ + 1]

imap_cmd_parser_append_begin2(c, tag, a) ==
    LET conv == imap_cmd_parser_imapfolder_to_sysfolder(c.lang, a.name)
        mid  == append_mid(fs)
        c1   == [c EXCEPT !.mid = mid, !.file_path = mid]
        fs0  == [fs EXCEPT !.seq = @ + 1]
        fs1  == [fs0 EXCEPT !.tmp = @ \cup {mid},
                            !.scratch = [folder |-> conv.s, flags |-> a.flags]]
    IN IF ~is_authed(c) THEN Res(c, Ret(1804, "BREAK", FALSE))
       ELSE IF a.bad \/ Len(a.name) = 0 \/ ~conv.ok
       THEN Res(c, Ret(1800, "BREAK", FALSE))
       ELSE IF ~a.open_ok
       THEN [Res(c1, Ret(1909, "BREAK", FALSE)) EXCEPT !.fs = fs0]
       ELSE IF ~a.write_ok
       THEN [Res(c1, Ret(0, "BREAK", FALSE)) EXCEPT !.fs = fs1]
       ELSE [Res([c1 EXCEPT !.message_fd = TRUE, !.tag_string = tag],
                 Ret(0, "CONTINUE", FALSE))
             EXCEPT !.fs = fs1]

imap_cmd_parser_append_end2(c, a) ==
    LET r0 == Res(c, Ret(1909, "CONTINUE", TRUE))
        r1 == [r0 EXCEPT !.ctx = close_fd(@)]
        sys_name == fs.scratch.folder
        r2 == [r1 EXCEPT !.fs.eml = @ \cup {c.mid}]
        eff == midb_call(midb, sys_name, a.o_ins)
        ret == m2icode(eff.r, eff.e)
        cmid == c.mid
        r3 == unlink_file([r2 EXCEPT !.ctx.mid = ""])
        uid == midb.uidnext[sys_name]
        m1 == insert_mail(midb, sys_name, cmid, fs.scratch.flags)
    IN IF ~a.fstat_ok \/ ~a.read_ok THEN close_and_unlink(r0)
       ELSE IF ~a.parse_ok THEN unlink_file(r1)
       ELSE IF ~a.eml_ok THEN unlink_file(r1)
       ELSE IF ~a.close_ok THEN r2
       ELSE IF ~IsZero(ret) THEN [r3 EXCEPT !.ret = MRet(ret, "CONTINUE", TRUE)]
       ELSE append_reply([r3 EXCEPT !.ctx = echo_if_select(
                                   bcast_touch(@, hub, FALSE,
                                               c.selected_folder), m1),
                       !.ret = Ret(0, "CONTINUE", FALSE),
                       !.midb = m1,
                       !.notes = [NoNotes EXCEPT
                                    !.touch = {c.selected_folder}]],
                         c.tag_string, cmid, uid, a)

\* ------------------------------------------------------ MIDB, folders
\* enum_folders lists the folders a user made; the five fixed ones are
\* not among them.
enum_folders(m) == m.folders \ {S_inbox, S_draft, S_sent, S_trash, S_junk}

make_folder(m, f) ==
    IF f \in m.folders THEN m
    ELSE [folders |-> m.folders \cup {f},
          subs |-> m.subs,
          mails |-> [g \in m.folders \cup {f} |->
                        IF g = f THEN <<>> ELSE m.mails[g]],
          uidnext |-> [g \in m.folders \cup {f} |->
                        IF g = f THEN 1 ELSE m.uidnext[g]]]

remove_folder(m, f) ==
    [folders |-> m.folders \ {f},
     subs |-> m.subs,
     mails |-> [g \in m.folders \ {f} |-> m.mails[g]],
     uidnext |-> [g \in m.folders \ {f} |-> m.uidnext[g]]]

rename_folder(m, f, t) ==
    [folders |-> (m.folders \ {f}) \cup {t},
     subs |-> m.subs,
     mails |-> [g \in (m.folders \ {f}) \cup {t} |->
                  IF g = t THEN m.mails[f] ELSE m.mails[g]],
     uidnext |-> [g \in (m.folders \ {f}) \cup {t} |->
                  IF g = t THEN m.uidnext[f] ELSE m.uidnext[g]]]

\* --------------------------------------- CREATE, DELETE, RENAME, SUBSCRIBE
\* imap_cmd_parser_convert_folderlist: each name converted, or left as it
\* is when it does not convert.
imap_cmd_parser_convert_folderlist(lang, list) ==
    {LET v == imap_cmd_parser_sysfolder_to_imapfolder(lang, e)
     IN IF v.ok THEN v.s ELSE e : e \in list}

\* strpbrk(s, "%*?") != nullptr
has_wildcard(s) == \E i \in 1..Len(s) : s[i] \in {"%", "*", "?"}

\* A call of MIDB that names folders, as the handlers note it.
FolderCall(op, folder) == [op |-> op, folder |-> folder]

\* The loop of CREATE over the levels of the name: [ret, m, calls], calls
\* the make_folder calls made.
RECURSIVE create_levels(_, _, _, _, _, _, _)
create_levels(lang, m, sys_name, i, folder_list, o, calls) ==
    LET prefix == SubSeq(sys_name, 1, i - 1)
        conv == imap_cmd_parser_imapfolder_to_sysfolder(lang, prefix)
    IN IF i > Len(sys_name) + 1
       THEN [ret |-> [code |-> 0, midb |-> FALSE], m |-> m, calls |-> calls]
       ELSE IF i <= Len(sys_name) /\ sys_name[i] # "/"
       THEN create_levels(lang, m, sys_name, i + 1, folder_list, o, calls)
       ELSE IF prefix \in folder_list
       THEN create_levels(lang, m, sys_name, i + 1, folder_list, o, calls)
       ELSE IF ~conv.ok
       THEN [ret |-> [code |-> 1800, midb |-> FALSE], m |-> m,
             calls |-> calls]
       ELSE IF o.r # "OK"
       THEN [ret |-> m2icode(o.r, o.e), m |-> m,
             calls |-> Append(calls, FolderCall("make_folder", conv.s))]
       ELSE create_levels(lang, make_folder(m, conv.s), sys_name, i + 1,
                          folder_list, o,
                          Append(calls, FolderCall("make_folder", conv.s)))

imap_cmd_parser_create(c, a) ==
    LET conv == imap_cmd_parser_imapfolder_to_sysfolder(c.lang, a.name)
        ret1 == m2icode(a.o1.r, a.o1.e)
        folder_list ==
            imap_cmd_parser_convert_folderlist(c.lang,
                enum_folders(midb) \cup {S_inbox, S_draft, S_sent, S_trash,
                                         S_junk})
        sys_name == IF Len(a.name) > 0 /\ a.name[Len(a.name)] = "/"
                    THEN SubSeq(a.name, 1, Len(a.name) - 1) ELSE a.name
        run == create_levels(c.lang, midb, sys_name, 1, folder_list, a.o2,
                             <<>>)
    IN IF ~is_authed(c) THEN Res(c, Ret(1804, "CONTINUE", FALSE))
       ELSE IF a.bad \/ Len(a.name) = 0 \/ ~conv.ok
       THEN Res(c, Ret(1800, "CONTINUE", FALSE))
       ELSE IF has_wildcard(a.name) THEN Res(c, Ret(1910, "CONTINUE", FALSE))
       ELSE IF special_folder(conv.s)
       THEN Res(c, Ret(1911, "CONTINUE", FALSE))
       ELSE IF ~IsZero(ret1) THEN Res(c, MRet(ret1, "CONTINUE", FALSE))
       ELSE IF ~IsZero(run.ret)
       THEN [Res(c, MRet(run.ret, "CONTINUE", FALSE))
             EXCEPT !.midb = run.m, !.info.calls = run.calls]
       ELSE [Res(echo_if_select(c, run.m), Ret(1706, "CONTINUE", FALSE))
             EXCEPT !.midb = run.m, !.info.calls = run.calls]

imap_cmd_parser_delete(c, a) ==
    LET conv == imap_cmd_parser_imapfolder_to_sysfolder(c.lang, a.name)
        ret1 == m2icode(a.o1.r, a.o1.e)
        folder_list ==
            imap_cmd_parser_convert_folderlist(c.lang, enum_folders(midb))
        child == \E e \in folder_list :
                    /\ Len(e) > Len(a.name) + 1
                    /\ SubSeq(e, 1, Len(a.name) + 1) = a.name \o <<"/">>
        eff == midb_call(midb, conv.s, a.o2)
        ret2 == m2icode(eff.r, eff.e)
        m1 == remove_folder(midb, conv.s)
    IN IF ~is_authed(c) THEN Res(c, Ret(1804, "CONTINUE", FALSE))
       ELSE IF a.bad \/ Len(a.name) = 0 \/ ~conv.ok
       THEN Res(c, Ret(1800, "CONTINUE", FALSE))
       ELSE IF special_folder(conv.s)
       THEN Res(c, Ret(1913, "CONTINUE", FALSE))
       ELSE IF ~IsZero(ret1) THEN Res(c, MRet(ret1, "CONTINUE", FALSE))
       ELSE IF a.name \notin folder_list
       THEN Res(c, Ret(1925, "CONTINUE", FALSE))
       ELSE IF child THEN Res(c, Ret(1924, "CONTINUE", FALSE))
       ELSE IF ~IsZero(ret2)
       THEN [Res(c, MRet(ret2, "CONTINUE", FALSE))
             EXCEPT !.info.calls = <<FolderCall("remove_folder", conv.s)>>]
       ELSE [Res(echo_if_select(c, m1), Ret(1707, "CONTINUE", FALSE))
             EXCEPT !.midb = m1,
                    !.info.calls = <<FolderCall("remove_folder", conv.s)>>]

imap_cmd_parser_rename(c, a) ==
    LET conv == imap_cmd_parser_imapfolder_to_sysfolder(c.lang, a.name)
        conv1 == imap_cmd_parser_imapfolder_to_sysfolder(c.lang, a.name2)
        eff == midb_call(midb, conv.s, a.o1)
        ret == m2icode(eff.r, eff.e)
        m1 == rename_folder(midb, conv.s, conv1.s)
    IN IF ~is_authed(c) THEN Res(c, Ret(1804, "CONTINUE", FALSE))
       ELSE IF a.bad \/ Len(a.name) = 0 \/ Len(a.name2) = 0
               \/ ~conv.ok \/ ~conv1.ok
       THEN Res(c, Ret(1800, "CONTINUE", FALSE))
       ELSE IF has_wildcard(a.name2)
       THEN Res(c, Ret(1910, "CONTINUE", FALSE))
       ELSE IF special_folder(conv.s) \/ special_folder(conv1.s)
       THEN Res(c, Ret(1914, "CONTINUE", FALSE))
       ELSE IF ~IsZero(ret)
       THEN [Res(c, MRet(ret, "CONTINUE", FALSE))
             EXCEPT !.info.calls = <<FolderCall("rename_folder", conv.s),
                                     FolderCall("rename_folder", conv1.s)>>]
       ELSE [Res(echo_if_select(c, m1), Ret(1708, "CONTINUE", FALSE))
             EXCEPT !.midb = m1,
                    !.info.calls = <<FolderCall("rename_folder", conv.s),
                                     FolderCall("rename_folder", conv1.s)>>]

\* SUBSCRIBE and UNSUBSCRIBE differ in the MIDB call and the reply.
subscription(c, a, subscribe) ==
    LET conv == imap_cmd_parser_imapfolder_to_sysfolder(c.lang, a.name)
        eff == midb_call(midb, conv.s, a.o1)
        ret == m2icode(eff.r, eff.e)
        m1 == [midb EXCEPT !.subs = IF subscribe THEN @ \cup {conv.s}
                                    ELSE @ \ {conv.s}]
    IN IF ~is_authed(c) THEN Res(c, Ret(1804, "CONTINUE", FALSE))
       ELSE IF a.bad \/ Len(a.name) = 0 \/ ~conv.ok
       THEN Res(c, Ret(1800, "CONTINUE", FALSE))
       ELSE IF ~IsZero(ret) THEN Res(c, MRet(ret, "CONTINUE", FALSE))
       ELSE [Res(echo_if_select(c, m1),
                 Ret(IF subscribe THEN 1709 ELSE 1710, "CONTINUE", FALSE))
             EXCEPT !.midb = m1]

imap_cmd_parser_subscribe(c, a) == subscription(c, a, TRUE)
imap_cmd_parser_unsubscribe(c, a) == subscription(c, a, FALSE)

\* ------------------------------------------------- LIST, XLIST, LSUB
\* strcspn(s, "/")
\* The span that stops at no character.
cspn_none(s) == Len(s)
\* strcspn(s, "/"): the characters before the first "/".
cspn_slash(s) == IF SlashPos(s) = 0 THEN Len(s) ELSE SlashPos(s) - 1

RECURSIVE imap_cmd_parser_wildcard_match(_, _)
imap_cmd_parser_wildcard_match(folder, mask) ==
    IF folder = <<>> /\ mask = <<>> THEN TRUE
    ELSE IF mask = <<>> THEN FALSE
    ELSE IF Head(mask) \notin {"*", "%"}
    THEN /\ folder # <<>>
         /\ HX_toupper(Head(folder)) = HX_toupper(Head(mask))
         /\ imap_cmd_parser_wildcard_match(Tail(folder), Tail(mask))
    ELSE LET span == IF Head(mask) = "*" THEN Len(folder)
                     ELSE cspn_slash(folder)
         IN \E k \in 0..span :
               imap_cmd_parser_wildcard_match(
                   SubSeq(folder, k + 1, Len(folder)), Tail(mask))

\* The names of g_folder_list as the client sees them.
special_names(lang) ==
    {imap_cmd_parser_sysfolder_to_imapfolder(lang, f).s :
        f \in {S_draft, S_sent, S_trash, S_junk}}

\* A listing that leaves the pattern aside.
listed_unmatched(lang, folder_list, pattern) ==
    {INBOX} \cup special_names(lang) \cup folder_list
\* The names a listing writes: INBOX, the four fixed folders and the
\* folders given, as far as they match the pattern.
listed(lang, folder_list, pattern) ==
    {n \in {INBOX} \cup special_names(lang) \cup folder_list :
        imap_cmd_parser_wildcard_match(n, pattern)}

\* What a listing ends with: the stream is handed to the writer.
list_done(c, tag, code, names) ==
    [Res([echo_if_select(c, midb) EXCEPT !.sched_stat = "wrlst"],
         Ret(0, "BREAK", FALSE))
     EXCEPT !.out = Line(tag, code, ""),
            !.info = [NoInfo EXCEPT !.names = names]]

imap_cmd_parser_list(c, tag, a) ==
    LET ret == m2icode(a.o1.r, a.o1.e)
        folder_list ==
            IF a.filter_special THEN {}
            ELSE imap_cmd_parser_convert_folderlist(c.lang,
                                                    enum_folders(midb))
    IN IF ~is_authed(c) THEN Res(c, Ret(1804, "CONTINUE", FALSE))
       ELSE IF a.bad THEN Res(c, Ret(1800, "CONTINUE", FALSE))
       ELSE IF a.mboxname = <<>>
       THEN [Res(echo_if_select(c, midb), Ret(0, "CONTINUE", FALSE))
             EXCEPT !.out = Line(tag, 1711, "* LIST (\\Noselect)")]
       ELSE IF ~a.filter_special /\ ~IsZero(ret)
       THEN Res(c, MRet(ret, "CONTINUE", FALSE))
       ELSE list_done(c, tag, 1711,
                      listed(c.lang, folder_list, a.reference \o a.mboxname))

imap_cmd_parser_xlist(c, tag, a) ==
    LET ret == m2icode(a.o1.r, a.o1.e)
        folder_list ==
            imap_cmd_parser_convert_folderlist(c.lang, enum_folders(midb))
        search_pattern ==
            a.reference \o (IF a.mboxname = <<>> THEN <<"*">> ELSE a.mboxname)
    IN IF ~is_authed(c) THEN Res(c, Ret(1804, "CONTINUE", FALSE))
       ELSE IF a.bad THEN Res(c, Ret(1800, "CONTINUE", FALSE))
       ELSE IF ~IsZero(ret) THEN Res(c, MRet(ret, "CONTINUE", FALSE))
       ELSE list_done(c, tag, 1712,
                      listed(c.lang, folder_list, search_pattern))

imap_cmd_parser_lsub(c, tag, a) ==
    LET ret == m2icode(a.o1.r, a.o1.e)
        sub_list == imap_cmd_parser_convert_folderlist(c.lang, midb.subs)
        search_pattern == a.reference \o a.mboxname
    IN IF ~is_authed(c) THEN Res(c, Ret(1804, "CONTINUE", FALSE))
       ELSE IF a.bad THEN Res(c, Ret(1800, "CONTINUE", FALSE))
       ELSE IF a.mboxname = <<>>
       THEN [Res(echo_if_select(c, midb), Ret(0, "CONTINUE", FALSE))
             EXCEPT !.out = Line(tag, 1711, "* LSUB (\\Noselect)")]
       ELSE IF ~IsZero(ret) THEN Res(c, MRet(ret, "CONTINUE", FALSE))
       ELSE list_done(c, tag, 1713,
                      {n \in sub_list :
                          imap_cmd_parser_wildcard_match(n, search_pattern)})

\* ------------------------------------------------------ STATUS, IDLE
imap_cmd_parser_status(c, tag, a) ==
    LET conv == imap_cmd_parser_imapfolder_to_sysfolder(c.lang, a.name)
        eff == midb_call(midb, conv.s, a.o1)
        ret == m2icode(eff.r, eff.e)
    IN IF ~is_authed(c) THEN Res(c, Ret(1804, "CONTINUE", FALSE))
       ELSE IF a.bad \/ Len(a.name) = 0 \/ ~conv.ok
       THEN Res(c, Ret(1800, "CONTINUE", FALSE))
       ELSE IF ~IsZero(ret) THEN Res(c, MRet(ret, "CONTINUE", FALSE))
       ELSE IF ~a.items_ok THEN Res(c, Ret(1800, "CONTINUE", FALSE))
       ELSE list_done(c, tag, 1714, {})

imap_cmd_parser_idle(c, tag, a) ==
    IF ~is_authed(c) THEN Res(c, Ret(1804, "CONTINUE", FALSE))
    ELSE IF a.bad THEN Res(c, Ret(1800, "CONTINUE", FALSE))
    ELSE [Res([c EXCEPT !.tag_string = tag, !.sched_stat = "idling"],
              Ret(0, "CONTINUE", FALSE))
          EXCEPT !.out = Line("+", 1602, "")]

\* ------------------------------------------- APPEND in one command line
imap_cmd_parser_append(c, tag, a) ==
    LET conv == imap_cmd_parser_imapfolder_to_sysfolder(c.lang, a.name)
        mid_string == append_mid(fs)
        fs0 == [fs EXCEPT !.seq = @ + 1]
        fs1 == [fs0 EXCEPT !.eml = @ \cup {mid_string}]
        eff == midb_call(midb, conv.s, a.o_ins)
        ret == m2icode(eff.r, eff.e)
        m1 == insert_mail(midb, conv.s, mid_string, a.flags)
        uid == midb.uidnext[conv.s]
        c1 == echo_if_select(bcast_touch(c, hub, FALSE, c.selected_folder),
                             m1)
    IN IF ~is_authed(c) THEN Res(c, Ret(1804, "CONTINUE", FALSE))
       ELSE IF a.bad \/ Len(a.name) = 0 \/ ~conv.ok
       THEN Res(c, Ret(1800, "CONTINUE", FALSE))
       ELSE IF ~a.parse_ok THEN Res(c, Ret(1908, "CONTINUE", FALSE))
       ELSE IF ~a.eml_ok
       THEN [Res(c, Ret(1909, "CONTINUE", FALSE)) EXCEPT !.fs = fs0]
       ELSE IF ~a.close_ok
       THEN [Res(c, Ret(1909, "CONTINUE", FALSE)) EXCEPT !.fs = fs1]
       ELSE IF ~IsZero(ret)
       THEN [Res(c, MRet(ret, "CONTINUE", FALSE)) EXCEPT !.fs = fs1]
       ELSE append_reply([Res(c1, Ret(0, "CONTINUE", FALSE))
                          EXCEPT !.fs = fs1, !.midb = m1,
                                 !.notes = [NoNotes EXCEPT
                                              !.touch = {c.selected_folder}]],
                         tag, mid_string, uid, a)

\* ------------------------------------------------------- MIDB, flags
AllFlags == {"A", "F", "D", "S", "T", "R"}

\* set_flags / unset_flags on the message of that mid.
set_flags(m, folder, mid, bits) ==
    IF folder \notin DOMAIN m.mails THEN m
    ELSE LET xs == m.mails[folder]
         IN [m EXCEPT !.mails[folder] =
                [i \in 1..Len(xs) |->
                    IF xs[i].mid = mid
                    THEN [xs[i] EXCEPT !.flags = @ \cup bits]
                    ELSE xs[i]]]

unset_flags(m, folder, mid, bits) ==
    IF folder \notin DOMAIN m.mails THEN m
    ELSE LET xs == m.mails[folder]
         IN [m EXCEPT !.mails[folder] =
                [i \in 1..Len(xs) |->
                    IF xs[i].mid = mid
                    THEN [xs[i] EXCEPT !.flags = @ \ bits]
                    ELSE xs[i]]]

\* ------------------------------------------------ CHECK, SEARCH, FETCH
imap_cmd_parser_check(c) ==
    IF c.proto_stat # "select" THEN Res(c, Ret(1805, "CONTINUE", FALSE))
    ELSE Res(echo_modify(c, midb), Ret(1716, "CONTINUE", FALSE))

\* SEARCH and UID SEARCH: the criteria go to MIDB as they are.
search(c, tag, a, ok_code) ==
    LET eff == midb_call(midb, c.selected_folder, a.o1)
        ret == m2icode(eff.r, eff.e)
    IN IF c.proto_stat # "select" THEN Res(c, Ret(1805, "CONTINUE", FALSE))
       ELSE IF a.bad THEN Res(c, Ret(1800, "CONTINUE", FALSE))
       ELSE IF ~IsZero(ret) THEN Res(c, MRet(ret, "CONTINUE", FALSE))
       ELSE [Res([echo_modify(c, midb) EXCEPT !.sched_stat = "wrlst"],
                 Ret(0, "BREAK", FALSE))
             EXCEPT !.out = Line(tag, ok_code, "")]

imap_cmd_parser_search(c, tag, a) == search(c, tag, a, 1719)
imap_cmd_parser_uid_search(c, tag, a) == search(c, tag, a, 1723)

\* fetch_trivial_uid: the items of the view whose UID is in the list.
fetch_trivial_uid(c, uids) ==
    LET vec == c.contents.m_vec
        hit == SelectSeq(vec, LAMBDA x : x.uid \in uids)
    IN [i \in 1..Len(hit) |->
          [uid |-> hit[i].uid, mid |-> hit[i].mid,
           flags |-> hit[i].flag_bits]]

\* imap_cmd_parser_parse_fetch_args, its end: what the items ask of
\* MIDB and of the stream, and the order in which they are rendered.
\* The macros ALL, FAST and FULL are not among the items modelled.
FrontItems ==
    <<"UID", "FLAGS", "INTERNALDATE", "RFC822.SIZE", "ENVELOPE",
      "RFC822.HEADER", "RFC822.TEXT">>
BackItems == <<"BODY", "BODYSTRUCTURE", "RFC822">>

RECURSIVE moved(_, _, _)
moved(plist, keys, i) ==
    IF i > Len(keys) THEN <<>>
    ELSE SelectSeq(plist, LAMBDA e : e = keys[i]) \o moved(plist, keys, i + 1)

imap_cmd_parser_parse_fetch_args(plist) ==
    LET named == {FrontItems[i] : i \in 1..Len(FrontItems)}
                 \cup {BackItems[i] : i \in 1..Len(BackItems)}
        has(S) == \E i \in 1..Len(plist) : plist[i] \in S
    IN [b_detail |-> has({"RFC822", "RFC822.HEADER", "RFC822.TEXT", "BODY",
                          "BODYSTRUCTURE", "ENVELOPE", "INTERNALDATE",
                          "RFC822.SIZE", "BODY[]", "BODY.PEEK[]"}),
        b_data |-> has({"RFC822", "RFC822.HEADER", "RFC822.TEXT", "BODY[]",
                        "BODY.PEEK[]"}),
        plist |-> moved(plist, FrontItems, 1)
                  \o SelectSeq(plist, LAMBDA e : e \notin named)
                  \o moved(plist, BackItems, 1)]

\* One MIDB flag call, as the command issued it.
FlagCall(op, mid, bits) == [op |-> op, mid |-> mid, bits |-> bits]

\* A variant in which the PEEK form marks the message as well.
SeenItemsAndPeek == {"RFC822", "RFC822.TEXT", "BODY[]", "BODY.PEEK[]"}

\* The items that read the body and mark the message as seen.
SeenItems == {"RFC822", "RFC822.TEXT", "BODY[]"}

\* A variant that does not note \Seen on the item it holds.
fetch_keyword_unnoted(c, st, pitem, kw) ==
    IF kw = "FLAGS" THEN [st EXCEPT !.shown = st.flag_bits]
    ELSE IF kw \in SeenItems /\ ~c.b_readonly /\ "S" \notin st.flag_bits
    THEN [st EXCEPT
            !.m = set_flags(@, c.selected_folder, pitem.mid, {"S"}),
            !.calls = Append(@, FlagCall("set", pitem.mid, {"S"})),
            !.casts = Append(@, pitem.uid)]
    ELSE st

\* One item of the list: FLAGS renders the flags the item holds; an item
\* that reads the body without PEEK sets \Seen on a message not seen.
fetch_keyword(c, st, pitem, kw) ==
    IF kw = "FLAGS" THEN [st EXCEPT !.shown = st.flag_bits]
    ELSE IF kw \in SeenItems /\ ~c.b_readonly /\ "S" \notin st.flag_bits
    THEN [st EXCEPT
            !.m = set_flags(@, c.selected_folder, pitem.mid, {"S"}),
            !.flag_bits = @ \cup {"S"},
            !.calls = Append(@, FlagCall("set", pitem.mid, {"S"})),
            !.casts = Append(@, pitem.uid)]
    ELSE st

RECURSIVE fetch_keywords(_, _, _, _, _)
fetch_keywords(c, st, pitem, plist, i) ==
    IF i > Len(plist) THEN st
    ELSE CHOOSE r \in {fetch_keywords(c, s, pitem, plist, i + 1) :
                          s \in {fetch_keyword(c, st, pitem, plist[i])}} : TRUE

\* imap_cmd_parser_process_fetch_item: the line of one message and the
\* flag changes that go with it.  st carries MIDB, the MIDB flag calls,
\* the flag broadcasts and the lines written so far.
imap_cmd_parser_process_fetch_item(c, st, pitem, item_id, plist) ==
    LET st0 == [m |-> st.m, flag_bits |-> pitem.flags, shown |-> {},
                calls |-> st.calls, casts |-> st.casts]
        st1 == fetch_keywords(c, st0, pitem, plist, 1)
        line == Untagged("RESPONSE", item_id, pitem.uid, st1.shown)
        drop == ~c.b_readonly /\ "R" \in st1.flag_bits
                /\ "S" \notin st1.flag_bits
    IN [m |-> IF drop
              THEN unset_flags(st1.m, c.selected_folder, pitem.mid, {"R"})
              ELSE st1.m,
        calls |-> IF drop
                  THEN Append(st1.calls, FlagCall("unset", pitem.mid, {"R"}))
                  ELSE st1.calls,
        casts |-> IF drop THEN Append(st1.casts, pitem.uid) ELSE st1.casts,
        lines |-> Append(st.lines, line)]

RECURSIVE fetch_items(_, _, _, _, _)
fetch_items(c, st, xarray, i, plist) ==
    LET ct_item == get_itemx(c.contents.m_vec, xarray[i].uid)
    IN IF i > Len(xarray) THEN st
       ELSE IF ct_item = {} THEN fetch_items(c, st, xarray, i + 1, plist)
       ELSE CHOOSE r \in
               {fetch_items(c, s, xarray, i + 1, plist) :
                  s \in {imap_cmd_parser_process_fetch_item(
                            c, st, xarray[i],
                            CHOOSE id \in ct_item : TRUE, plist)}} : TRUE

\* What FETCH and UID FETCH do once the messages are listed.
fetch_tail(c, tag, a, pa, xarray, ok_code) ==
    LET in_view == \E i \in 1..Len(xarray) :
                      get_itemx(c.contents.m_vec, xarray[i].uid) # {}
        st == fetch_items(c, [m |-> midb, calls |-> <<>>, casts |-> <<>>,
                              lines |-> <<>>],
                          xarray, 1, pa.plist)
        written == [c EXCEPT !.echoed = @ \o st.lines]
    IN IF pa.b_detail /\ ~a.load_ok /\ in_view
       THEN Res(c, Ret(1923, "CONTINUE", FALSE))
       ELSE [Res([echo_modify(written, st.m) EXCEPT
                     !.sched_stat = IF pa.b_data THEN "wrdat" ELSE "wrlst"],
                 Ret(0, "BREAK", FALSE))
             EXCEPT !.midb = st.m, !.out = Line(tag, ok_code, ""),
                    !.notes = [NoNotes EXCEPT !.flags = st.casts],
                    !.info = [NoInfo EXCEPT !.calls = st.calls]]

fetch_any_phase(c, tag, a) ==
    LET sq == parse_imap_seqx(c, a)
        pa == imap_cmd_parser_parse_fetch_args(a.items)
        eff == midb_call(midb, c.selected_folder, a.o1)
        ret == IF pa.b_detail THEN m2icode(eff.r, eff.e)
               ELSE m2icode("OK", 0)
        xarray == IF pa.b_detail
                  THEN fetch_simple_uid(midb, c.selected_folder, sq.uid_list)
                  ELSE fetch_trivial_uid(c, sq.uid_list)
    IN IF a.bad \/ sq.err \/ a.args_bad
       THEN Res(c, Ret(1800, "CONTINUE", FALSE))
       ELSE IF ~IsZero(ret) THEN Res(c, MRet(ret, "CONTINUE", FALSE))
       ELSE fetch_tail(c, tag, a, pa, xarray, 1720)

imap_cmd_parser_fetch(c, tag, a) ==
    LET sq == parse_imap_seqx(c, a)
        pa == imap_cmd_parser_parse_fetch_args(a.items)
        eff == midb_call(midb, c.selected_folder, a.o1)
        ret == IF pa.b_detail THEN m2icode(eff.r, eff.e)
               ELSE m2icode("OK", 0)
        xarray == IF pa.b_detail
                  THEN fetch_simple_uid(midb, c.selected_folder, sq.uid_list)
                  ELSE fetch_trivial_uid(c, sq.uid_list)
        seen == [NoInfo EXCEPT !.deref = sq.deref, !.uids = sq.uid_list]
        done == fetch_tail(c, tag, a, pa, xarray, 1720)
    IN IF c.proto_stat # "select" THEN Res(c, Ret(1805, "CONTINUE", FALSE))
       ELSE IF a.bad THEN Res(c, Ret(1800, "CONTINUE", FALSE))
       ELSE IF sq.err \/ a.args_bad
       THEN [Res(c, Ret(1800, "CONTINUE", FALSE)) EXCEPT !.info = seen]
       ELSE IF ~IsZero(ret)
       THEN [Res(c, MRet(ret, "CONTINUE", FALSE)) EXCEPT !.info = seen]
       ELSE [done EXCEPT !.info.deref = sq.deref, !.info.uids = sq.uid_list]

imap_cmd_parser_uid_fetch(c, tag, a) ==
    LET pa0 == imap_cmd_parser_parse_fetch_args(a.items)
        pa == IF \E i \in 1..Len(pa0.plist) : pa0.plist[i] = "UID" THEN pa0
              ELSE [pa0 EXCEPT !.plist = Append(@, "UID")]
        eff == midb_call(midb, c.selected_folder, a.o1)
        ret == m2icode(eff.r, eff.e)
        xarray == fetch_simple_uid(midb, c.selected_folder,
                     uid_set(MailsOf(midb, c.selected_folder), a.seq))
    IN IF c.proto_stat # "select" THEN Res(c, Ret(1805, "CONTINUE", FALSE))
       ELSE IF a.bad \/ a.err \/ a.args_bad
       THEN Res(c, Ret(1800, "CONTINUE", FALSE))
       ELSE IF ~IsZero(ret) THEN Res(c, MRet(ret, "CONTINUE", FALSE))
       ELSE fetch_tail(c, tag, a, pa, xarray, 1728)

\* ------------------------------------------------- STORE, UID STORE
\* get_flags: the flags MIDB holds for the message of that mid.
get_flags(m, folder, mid) ==
    LET xs == MailsOf(m, folder)
    IN UNION {xs[k].flags : k \in {j \in 1..Len(xs) : xs[j].mid = mid}}

\* A variant in which FLAGS adds to the flags the message has.
store_flags_merged(keyword, st, folder, mid, id, uid, flag_bits, get_ok) ==
    LET m == st.m
        m1 == CASE keyword \in {"FLAGS", "FLAGS.SILENT"} ->
                      set_flags(m, folder, mid, flag_bits)
                [] keyword \in {"+FLAGS", "+FLAGS.SILENT"} ->
                      set_flags(m, folder, mid, flag_bits)
                [] keyword \in {"-FLAGS", "-FLAGS.SILENT"} ->
                      unset_flags(m, folder, mid, flag_bits)
                [] OTHER -> m
        line == CASE keyword = "FLAGS" ->
                        <<Untagged("STORED", id, uid, flag_bits)>>
                  [] keyword \in {"+FLAGS", "-FLAGS"} /\ get_ok ->
                        <<Untagged("STORED", id, uid,
                                   get_flags(m1, folder, mid))>>
                  [] OTHER -> <<>>
    IN [m |-> m1, lines |-> st.lines \o line]

\* imap_cmd_parser_store_flags: the MIDB calls of one message, and the
\* line the issuing session is sent unless the keyword is a silent one.
\* FLAGS shows the flags asked for, +FLAGS and -FLAGS the flags MIDB
\* returns when get_flags succeeds.  st carries MIDB and the lines.
imap_cmd_parser_store_flags(keyword, st, folder, mid, id, uid, flag_bits, get_ok) ==
    LET m == st.m
        m1 == CASE keyword \in {"FLAGS", "FLAGS.SILENT"} ->
                      set_flags(unset_flags(m, folder, mid, AllFlags), folder,
                                mid, flag_bits)
                [] keyword \in {"+FLAGS", "+FLAGS.SILENT"} ->
                      set_flags(m, folder, mid, flag_bits)
                [] keyword \in {"-FLAGS", "-FLAGS.SILENT"} ->
                      unset_flags(m, folder, mid, flag_bits)
                [] OTHER -> m
        line == CASE keyword = "FLAGS" ->
                        <<Untagged("STORED", id, uid, flag_bits)>>
                  [] keyword \in {"+FLAGS", "-FLAGS"} /\ get_ok ->
                        <<Untagged("STORED", id, uid,
                                   get_flags(m1, folder, mid))>>
                  [] OTHER -> <<>>
    IN [m |-> m1, lines |-> st.lines \o line]

\* The loop of STORE (which passes 0 as the UID of the line) and of
\* UID STORE (which passes the message's).
RECURSIVE store_items(_, _, _, _, _, _)
store_items(c, st, xarray, i, a, with_uid) ==
    LET ct_item == get_itemx(c.contents.m_vec, xarray[i].uid)
    IN IF i > Len(xarray) THEN st
       ELSE IF ct_item = {} THEN store_items(c, st, xarray, i + 1, a, with_uid)
       ELSE CHOOSE r \in
               {store_items(c, s, xarray, i + 1, a, with_uid) :
                  s \in {imap_cmd_parser_store_flags(
                            a.keyword, st, c.selected_folder, xarray[i].mid,
                            CHOOSE id \in ct_item : TRUE,
                            IF with_uid THEN xarray[i].uid ELSE 0,
                            a.flag_bits, a.get_ok)}} : TRUE

\* A variant that does not ask whether the selection is read-only.
store_tail_writable(c, a, uids, ok_code) ==
    LET eff == midb_call(midb, c.selected_folder, a.o1)
        ret == m2icode(eff.r, eff.e)
        xarray == fetch_simple_uid(midb, c.selected_folder, uids)
        st == store_items(c, [m |-> midb, lines |-> <<>>], xarray, 1, a,
                          ok_code = 1724)
        stored == SelectSeq(xarray,
                     LAMBDA x : get_itemx(c.contents.m_vec, x.uid) # {})
        written == [c EXCEPT !.echoed = @ \o st.lines]
    IN IF a.paren_bad THEN Res(c, Ret(1800, "CONTINUE", FALSE))
       ELSE IF ~a.flag_bits \subseteq AllFlags
       THEN Res(c, Ret(1807, "CONTINUE", FALSE))
       ELSE IF ~IsZero(ret) THEN Res(c, MRet(ret, "CONTINUE", FALSE))
       ELSE [Res(echo_modify(written, st.m), Ret(ok_code, "CONTINUE", FALSE))
             EXCEPT !.midb = st.m,
                    !.notes = [NoNotes EXCEPT !.flags =
                                 [i \in 1..Len(stored) |-> stored[i].uid]]]

\* What STORE and UID STORE do once the sequence set is parsed.
store_tail(c, a, uids, ok_code) ==
    LET eff == midb_call(midb, c.selected_folder, a.o1)
        ret == m2icode(eff.r, eff.e)
        xarray == fetch_simple_uid(midb, c.selected_folder, uids)
        st == store_items(c, [m |-> midb, lines |-> <<>>], xarray, 1, a,
                          ok_code = 1724)
        stored == SelectSeq(xarray,
                     LAMBDA x : get_itemx(c.contents.m_vec, x.uid) # {})
        written == [c EXCEPT !.echoed = @ \o st.lines]
    IN IF a.paren_bad THEN Res(c, Ret(1800, "CONTINUE", FALSE))
       ELSE IF c.b_readonly THEN Res(c, Ret(1806, "CONTINUE", FALSE))
       ELSE IF ~a.flag_bits \subseteq AllFlags
       THEN Res(c, Ret(1807, "CONTINUE", FALSE))
       ELSE IF ~IsZero(ret) THEN Res(c, MRet(ret, "CONTINUE", FALSE))
       ELSE [Res(echo_modify(written, st.m), Ret(ok_code, "CONTINUE", FALSE))
             EXCEPT !.midb = st.m,
                    !.notes = [NoNotes EXCEPT !.flags =
                                 [i \in 1..Len(stored) |-> stored[i].uid]]]

imap_cmd_parser_store(c, a) ==
    LET sq == parse_imap_seqx(c, a)
        seen == [NoInfo EXCEPT !.deref = sq.deref, !.uids = sq.uid_list]
    IN IF c.proto_stat # "select" THEN Res(c, Ret(1805, "CONTINUE", FALSE))
       ELSE IF a.bad THEN Res(c, Ret(1800, "CONTINUE", FALSE))
       ELSE IF sq.err \/ a.keyword_bad
       THEN [Res(c, Ret(1800, "CONTINUE", FALSE)) EXCEPT !.info = seen]
       ELSE [store_tail(c, a, sq.uid_list, 1721) EXCEPT !.info = seen]

imap_cmd_parser_uid_store(c, a) ==
    IF c.proto_stat # "select" THEN Res(c, Ret(1805, "CONTINUE", FALSE))
    ELSE IF a.bad \/ a.err \/ a.keyword_bad
    THEN Res(c, Ret(1800, "CONTINUE", FALSE))
    ELSE store_tail(c, a, uid_set(MailsOf(midb, c.selected_folder), a.seq),
                    1724)

\* ----------------------------------------------- EXPUNGE, UID EXPUNGE
\* Unsigned comparison, SEQ_STAR being the largest number.
uint_le(x, y) == y = SEQ_STAR \/ (x # SEQ_STAR /\ x <= y)

iseq_contains(list, num, max_uid) ==
    LET idx == {k \in 1..Len(list) : uint_le(num, list[k].hi)}
        i == CHOOSE k \in idx : \A j \in idx : k <= j
    IN IF idx = {} THEN FALSE
       ELSE uint_le(list[i].lo, num) /\ uint_le(num, list[i].hi)
            /\ num <= max_uid

\* What EXPUNGE and UID EXPUNGE do with the list of \Deleted messages:
\* `picked' are the messages of the list the command is about, `exp_list'
\* those handed to remove_mail.
expunge_tail(c, tag, a, xarray, picked, exp_list, none_code) ==
    LET eff == midb_call(midb, c.selected_folder, a.o2)
        ret == m2icode(eff.r, eff.e)
        mids == {exp_list[i].mid : i \in 1..Len(exp_list)}
        uids == {exp_list[i].uid : i \in 1..Len(exp_list)}
        m1 == remove_mail(midb, c.selected_folder, mids)
        gone == {picked[i].mid : i \in {j \in 1..Len(picked) :
                    get_itemx(c.contents.m_vec, picked[j].uid) # {}}}
        c1 == IF exp_list # <<>> THEN bcast_expunge(c, hub, uids) ELSE c
    IN IF Len(xarray) = 0
       THEN Res(echo_modify(c, midb), Ret(none_code, "CONTINUE", FALSE))
       ELSE IF ~IsZero(ret) THEN Res(c, MRet(ret, "CONTINUE", FALSE))
       ELSE [Res([echo_modify(c1, m1) EXCEPT !.sched_stat = "wrlst"],
                 Ret(0, "BREAK", FALSE))
             EXCEPT !.midb = m1,
                    !.fs = [fs EXCEPT !.eml = @ \ gone],
                    !.out = Line(tag, 1726, ""),
                    !.info = [NoInfo EXCEPT !.uids = uids],
                    !.notes = [NoNotes EXCEPT !.expunge =
                                 [i \in 1..Len(exp_list) |-> exp_list[i].uid]]]

imap_cmd_parser_expunge(c, tag, a) ==
    LET eff == midb_call(midb, c.selected_folder, a.o1)
        ret == m2icode(eff.r, eff.e)
        xarray == list_deleted(midb, c.selected_folder)
        picked == SelectSeq(xarray, LAMBDA x : ~zero_uid_bit(x))
        exp_list == SelectSeq(picked,
                       LAMBDA x : get_itemx(c.contents.m_vec, x.uid) # {})
    IN IF c.proto_stat # "select" THEN Res(c, Ret(1805, "CONTINUE", FALSE))
       ELSE IF c.b_readonly THEN Res(c, Ret(1806, "CONTINUE", FALSE))
       ELSE IF ~IsZero(ret) THEN Res(c, MRet(ret, "CONTINUE", FALSE))
       ELSE expunge_tail(c, tag, a, xarray, picked, exp_list, 1726)

imap_cmd_parser_uid_expunge(c, tag, a) ==
    LET eff == midb_call(midb, c.selected_folder, a.o1)
        ret == m2icode(eff.r, eff.e)
        xarray == list_deleted(midb, c.selected_folder)
        max_uid == xarray[Len(xarray)].uid
        picked == SelectSeq(xarray,
                     LAMBDA x : ~zero_uid_bit(x)
                                /\ iseq_contains(a.seq, x.uid, max_uid))
    IN IF c.proto_stat # "select" THEN Res(c, Ret(1805, "CONTINUE", FALSE))
       ELSE IF c.b_readonly THEN Res(c, Ret(1806, "CONTINUE", FALSE))
       ELSE IF a.bad \/ a.err THEN Res(c, Ret(1800, "CONTINUE", FALSE))
       ELSE IF ~IsZero(ret) THEN Res(c, MRet(ret, "CONTINUE", FALSE))
       ELSE expunge_tail(c, tag, a, xarray, picked, picked, 1730)

\* A second session of the store's owner, logged in: its context and
\* the lines its last command wrote.
Peer == "S2"
NoPeer ==
    [ctx |-> with_lang(adopt([InitCtx EXCEPT !.sid = Peer], sql_meta("alice"))),
     sent |-> <<>>]

\* ---------------------------------------------------------- dispatcher
\* The reader takes a command line only between commands, on an open
\* connection; in the username and password phases the line is the
\* continuation of AUTHENTICATE LOGIN.
CanRead == ~closed /\ ctx.sched_stat = "rdcmd"
CommandPhase ==
    /\ CanRead /\ ctx.proto_stat \notin {"username", "password"}
    /\ ~ctx.message_fd

\* Write the reply dval composes (or the one the handler wrote), act on
\* the action bits, and take over what the handler did.
Apply(name, tag, a, result) ==
    \E res \in {result} :
    \E d \in {imap_cmd_parser_dval(res.ctx, tag, res.ret)} :
       /\ ctx' = IF d.act = "CLOSE"
                 THEN [res.ctx EXCEPT !.sched_stat = "closing",
                                      !.echoed = <<>>]
                 ELSE [res.ctx EXCEPT !.echoed = <<>>]
       /\ reply' = IF d.line # NoLine THEN d.line ELSE res.out
       /\ hub' = res.hub
       /\ midb' = res.midb
       /\ fs' = res.fs
       /\ banned' = banned \cup res.ban
       /\ cmd' = [sid |-> Me, name |-> name, tag |-> tag, a |-> a,
                  info |-> res.info, notes |-> res.notes]
       /\ untagged' = res.ctx.echoed
       /\ peer' = [peer EXCEPT !.ctx = deliver(@, res.hub, ctx, res.notes)]
       /\ UNCHANGED <<closed, cfg>>

\* The same for a command of the second session, which is read when the
\* command's lines have been written: the lines are kept in the order
\* they were written, the echo point's before the tagged one.
ApplyPeer(name, tag, a, result) ==
    \E res \in {result} :
    \E d \in {imap_cmd_parser_dval(res.ctx, tag, res.ret)} :
    \E line \in {IF d.line # NoLine THEN d.line ELSE res.out} :
       /\ ~closed
       /\ peer' = [ctx |-> [res.ctx EXCEPT !.echoed = <<>>,
                                           !.sched_stat = "rdcmd"],
                   sent |-> res.ctx.echoed
                            \o <<Untagged("TAGGED", line.code, 0, {})>>]
       /\ ctx' = deliver(ctx, res.hub, peer.ctx, res.notes)
       /\ hub' = res.hub
       /\ midb' = res.midb
       /\ fs' = res.fs
       /\ cmd' = [sid |-> Peer, name |-> name, tag |-> tag, a |-> a,
                  info |-> res.info, notes |-> res.notes]
       /\ UNCHANGED <<closed, cfg, banned, reply, untagged>>

\* The outcomes of the collaborators an authentication attempt calls:
\* the user filter, auth_login, and the StoreOwner permission lookup.
AuthOutcomes ==
    {[judge |-> FALSE, pwok |-> FALSE, owner |-> FALSE],
     [judge |-> TRUE, pwok |-> FALSE, owner |-> FALSE],
     [judge |-> TRUE, pwok |-> TRUE, owner |-> FALSE],
     [judge |-> TRUE, pwok |-> TRUE, owner |-> TRUE]}

LoginNames ==
    {[p |-> p, t |-> t] : p \in {"alice", "carol"},
                          t \in {NoTarget, "alice", "bob", "ghost"}}

LoginArgs ==
    {[bad |-> TRUE, p |-> "alice", t |-> NoTarget, judge |-> TRUE,
      pwok |-> TRUE, owner |-> FALSE]}
    \cup {[bad |-> FALSE, p |-> n.p, t |-> n.t, judge |-> o.judge,
           pwok |-> o.pwok, owner |-> o.owner] :
          n \in LoginNames, o \in AuthOutcomes}

LoginWith(args) ==
    /\ CommandPhase
    /\ \E tag \in Tags, a \in args :
          Apply("LOGIN", tag, a, imap_cmd_parser_login(ctx, tag, a))

Login == LoginWith(LoginArgs)

Authenticate ==
    /\ CommandPhase
    /\ \E tag \in Tags, a \in {[bad |-> b] : b \in BOOLEAN} :
          Apply("AUTHENTICATE", tag, a, imap_cmd_parser_authenticate(ctx, tag, a))

UsernameWith(names) ==
    /\ CanRead /\ ctx.proto_stat = "username"
    /\ \E a \in {[b64ok |-> FALSE, p |-> "", t |-> NoTarget]}
              \cup {[b64ok |-> TRUE, p |-> n.p, t |-> n.t] : n \in names} :
          Apply("username", "<b64>", a, imap_cmd_parser_username2(ctx, a))

Username == UsernameWith(LoginNames)

Password ==
    /\ CanRead /\ ctx.proto_stat = "password"
    /\ \E a \in {[b64ok |-> FALSE, judge |-> TRUE, pwok |-> TRUE, owner |-> FALSE]}
              \cup {[b64ok |-> TRUE, judge |-> o.judge, pwok |-> o.pwok,
                     owner |-> o.owner] : o \in AuthOutcomes} :
          Apply("password", "<b64>", a, imap_cmd_parser_password2(ctx, a))

Starttls ==
    /\ CommandPhase
    /\ \E tag \in CmdTags :
          Apply("STARTTLS", tag, [bad |-> FALSE], imap_cmd_parser_starttls(ctx))

Logout ==
    /\ CommandPhase
    /\ \E tag \in CmdTags :
          Apply("LOGOUT", tag, [bad |-> FALSE], imap_cmd_parser_logout(ctx, tag))

Noop ==
    /\ CommandPhase
    /\ \E tag \in CmdTags :
          Apply("NOOP", tag, [bad |-> FALSE], imap_cmd_parser_noop(ctx))

\* The outcomes of two MIDB calls in a row; the second is made only when
\* the first succeeded.
MidbPairs ==
    {[o1 |-> o, o2 |-> MidbOk] : o \in MidbFailures}
    \cup {[o1 |-> MidbOk, o2 |-> o] : o \in MidbOutcomes}

FolderArgs == {INBOX, Work, Slash, Amp}

SelectArgs ==
    {[bad |-> TRUE, name |-> INBOX, o1 |-> MidbOk, o2 |-> MidbOk,
      between |-> 0]}
    \cup {[bad |-> FALSE, name |-> n, o1 |-> o.o1, o2 |-> o.o2,
           between |-> 0] :
          n \in FolderArgs, o \in MidbPairs}

SelectWith(args) ==
    /\ CommandPhase
    /\ \E tag \in CmdTags, a \in args :
          Apply("SELECT", tag, a, imap_cmd_parser_selex(ctx, tag, a, FALSE))

Select == SelectWith(SelectArgs)

ExamineWith(args) ==
    /\ CommandPhase
    /\ \E tag \in CmdTags, a \in args :
          Apply("EXAMINE", tag, a, imap_cmd_parser_selex(ctx, tag, a, TRUE))

Examine == ExamineWith(SelectArgs)

Close ==
    /\ CommandPhase
    /\ \E tag \in CmdTags, a \in MidbPairs :
          Apply("CLOSE", tag, a, imap_cmd_parser_close(ctx, a))

Unselect ==
    /\ CommandPhase
    /\ \E tag \in CmdTags :
          Apply("UNSELECT", tag, [bad |-> FALSE], imap_cmd_parser_unselect(ctx))

\* The folder commands are drawn with the name of a folder the user makes
\* and unmakes, a fixed folder and a name with a wildcard.
New == <<"N">>
Old == <<"O">>
Wild == <<"W", "*">>

NameOk == [bad |-> FALSE, name |-> New, name2 |-> New, o1 |-> MidbOk,
           o2 |-> MidbOk]
NameArgs ==
    {NameOk, [NameOk EXCEPT !.bad = TRUE], [NameOk EXCEPT !.name = INBOX]}

Create ==
    /\ CommandPhase /\ Cardinality(midb.folders) < MaxFolders
    /\ \E tag \in CmdTags,
          a \in NameArgs \cup {[NameOk EXCEPT !.name = Wild],
                               [NameOk EXCEPT !.o2 = MidbDown]} :
          Apply("CREATE", tag, a, imap_cmd_parser_create(ctx, a))

Delete ==
    /\ CommandPhase
    /\ \E tag \in CmdTags, a \in NameArgs :
          Apply("DELETE", tag, a, imap_cmd_parser_delete(ctx, a))

\* RENAME is drawn with a new name that is not taken.
Rename ==
    /\ CommandPhase
    /\ \E tag \in CmdTags, a \in NameArgs, n2 \in {Old} :
          /\ imap_cmd_parser_imapfolder_to_sysfolder(default_lang, n2).s
                \notin midb.folders
          /\ Apply("RENAME", tag, [a EXCEPT !.name2 = n2],
                   imap_cmd_parser_rename(ctx, [a EXCEPT !.name2 = n2]))

Subscribe ==
    /\ CommandPhase
    /\ \E tag \in CmdTags, a \in {NameOk, [NameOk EXCEPT !.bad = TRUE]} :
          Apply("SUBSCRIBE", tag, a, imap_cmd_parser_subscribe(ctx, a))

Unsubscribe ==
    /\ CommandPhase
    /\ \E tag \in CmdTags, a \in {NameOk, [NameOk EXCEPT !.bad = TRUE]} :
          Apply("UNSUBSCRIBE", tag, a, imap_cmd_parser_unsubscribe(ctx, a))

ListOk == [bad |-> FALSE, filter_special |-> FALSE, reference |-> <<>>,
           mboxname |-> <<"*">>, o1 |-> MidbOk]
ListArgs ==
    {ListOk, [ListOk EXCEPT !.bad = TRUE], [ListOk EXCEPT !.mboxname = <<>>]}

List ==
    /\ CommandPhase
    /\ \E tag \in CmdTags, a \in ListArgs :
          Apply("LIST", tag, a, imap_cmd_parser_list(ctx, tag, a))

Xlist ==
    /\ CommandPhase
    /\ \E tag \in CmdTags, a \in ListArgs :
          Apply("XLIST", tag, a, imap_cmd_parser_xlist(ctx, tag, a))

Lsub ==
    /\ CommandPhase
    /\ \E tag \in CmdTags, a \in ListArgs :
          Apply("LSUB", tag, a, imap_cmd_parser_lsub(ctx, tag, a))

StatusOk == [bad |-> FALSE, name |-> INBOX, items_ok |-> TRUE, o1 |-> MidbOk]
StatusArgs ==
    {StatusOk, [StatusOk EXCEPT !.items_ok = FALSE],
     [StatusOk EXCEPT !.name = New]}

Status ==
    /\ CommandPhase
    /\ \E tag \in CmdTags, a \in StatusArgs :
          Apply("STATUS", tag, a, imap_cmd_parser_status(ctx, tag, a))

IdleWith(args) ==
    /\ CommandPhase
    /\ \E tag \in CmdTags, a \in args :
          Apply("IDLE", tag, a, imap_cmd_parser_idle(ctx, tag, a))

\* APPEND in one line is drawn into the user folder, while that has room.
LineOk == [bad |-> FALSE, name |-> Work, flags |-> {}, parse_ok |-> TRUE,
           eml_ok |-> TRUE, close_ok |-> TRUE, o_ins |-> MidbOk,
           seen_at |-> 1, poll_fail |-> "get_uid", uidvalid |-> 1]
LineArgs ==
    {LineOk, [LineOk EXCEPT !.bad = TRUE], [LineOk EXCEPT !.parse_ok = FALSE],
     [LineOk EXCEPT !.eml_ok = FALSE], [LineOk EXCEPT !.close_ok = FALSE],
     [LineOk EXCEPT !.o_ins = MidbDown],
     [LineOk EXCEPT !.seen_at = APPEND_POLLS + 1], [LineOk EXCEPT !.name = New]}

AppendLineWith(args) ==
    /\ CommandPhase /\ fs.seq <= MaxAppends
    /\ \E tag \in CmdTags, a \in args :
          Apply("APPEND", tag, a, imap_cmd_parser_append(ctx, tag, a))

AppendLine == AppendLineWith(LineArgs)

\* The sequence sets drawn: one range, or 1 and a range with a star, the
\* numbers from 0 to one past the largest view.
SeqNums == (0..(MaxMails + 1)) \cup {SEQ_STAR}
Ranges == {[lo |-> l, hi |-> h] : l \in SeqNums, h \in SeqNums}
SeqSets == {<<r>> : r \in Ranges}
           \cup {<<[lo |-> 1, hi |-> 1], r>> :
                 r \in {x \in Ranges : SEQ_STAR \in {x.lo, x.hi}}}

CopyOk == [bad |-> FALSE, err |-> FALSE, seq |-> <<[lo |-> 1, hi |-> SEQ_STAR]>>,
           dst |-> Work, o1 |-> MidbOk, uv |-> TRUE, failat |-> 0,
           o_rm |-> MidbOk, lost |-> 0]

\* COPY with every sequence set, the collaborators answering well; and
\* COPY of the whole view with every outcome of the collaborators.
CopyArgs ==
    {[CopyOk EXCEPT !.bad = TRUE], [CopyOk EXCEPT !.err = TRUE]}
    \cup {[CopyOk EXCEPT !.seq = q] : q \in SeqSets}
    \cup {[CopyOk EXCEPT !.dst = d, !.o1 = o, !.uv = FALSE] :
          d \in {Work, Slash, Amp}, o \in MidbOutcomes}
    \cup {[CopyOk EXCEPT !.failat = k, !.o_rm = o, !.uv = u] :
          k \in 1..MaxMails, o \in MidbOutcomes, u \in BOOLEAN}
    \cup {[CopyOk EXCEPT !.lost = k] : k \in 1..MaxMails}

\* The user folder is copied to while its next UID is at most MaxUid.
CopyRoom ==
    /\ encode_hex_binary(Work) \in midb.folders
    /\ midb.uidnext[encode_hex_binary(Work)] <= MaxUid

CopyWith(args) ==
    /\ CommandPhase /\ CopyRoom
    /\ \E tag \in CmdTags, a \in args :
          Apply("COPY", tag, a, imap_cmd_parser_copy(ctx, tag, a))

UidCopyWith(args) ==
    /\ CommandPhase /\ CopyRoom
    /\ \E tag \in CmdTags, a \in args :
          Apply("UID COPY", tag, a, imap_cmd_parser_uid_copy(ctx, tag, a))

Copy == CopyWith(CopyArgs)
UidCopy == UidCopyWith(CopyArgs)

\* The message commands are drawn on the first message and on the whole
\* view.
SeqFirst == <<[lo |-> 1, hi |-> 1]>>
SeqAll == <<[lo |-> 1, hi |-> SEQ_STAR]>>

Check ==
    /\ CommandPhase
    /\ \E tag \in CmdTags :
          Apply("CHECK", tag, [bad |-> FALSE], imap_cmd_parser_check(ctx))

SearchArgs == {[bad |-> b, o1 |-> MidbOk] : b \in BOOLEAN}

Search ==
    /\ CommandPhase
    /\ \E tag \in CmdTags, a \in SearchArgs :
          Apply("SEARCH", tag, a, imap_cmd_parser_search(ctx, tag, a))

UidSearch ==
    /\ CommandPhase
    /\ \E tag \in CmdTags, a \in SearchArgs :
          Apply("UID SEARCH", tag, a, imap_cmd_parser_uid_search(ctx, tag, a))

FetchOk == [bad |-> FALSE, err |-> FALSE, seq |-> SeqAll, args_bad |-> FALSE,
            items |-> <<"FLAGS">>,
            load_ok |-> TRUE, o1 |-> MidbOk]
FetchArgs ==
    {FetchOk, [FetchOk EXCEPT !.bad = TRUE], [FetchOk EXCEPT !.items = <<"ENVELOPE">>]}

FetchWith(args) ==
    /\ CommandPhase
    /\ \E tag \in CmdTags, a \in args :
          Apply("FETCH", tag, a, imap_cmd_parser_fetch(ctx, tag, a))

UidFetchWith(args) ==
    /\ CommandPhase
    /\ \E tag \in CmdTags, a \in args :
          Apply("UID FETCH", tag, a, imap_cmd_parser_uid_fetch(ctx, tag, a))

Fetch == FetchWith(FetchArgs)
UidFetch == UidFetchWith(FetchArgs)

StoreOk == [bad |-> FALSE, err |-> FALSE, seq |-> SeqFirst,
            keyword_bad |-> FALSE, paren_bad |-> FALSE,
            keyword |-> "+FLAGS", flag_bits |-> {"D"}, get_ok |-> TRUE,
            o1 |-> MidbOk]
StoreArgs ==
    {StoreOk, [StoreOk EXCEPT !.bad = TRUE],
     [StoreOk EXCEPT !.flag_bits = {"D", "\\Other"}]}

StoreWith(args) ==
    /\ CommandPhase
    /\ \E tag \in CmdTags, a \in args :
          Apply("STORE", tag, a, imap_cmd_parser_store(ctx, a))

UidStoreWith(args) ==
    /\ CommandPhase
    /\ \E tag \in CmdTags, a \in args :
          Apply("UID STORE", tag, a, imap_cmd_parser_uid_store(ctx, a))

Store == StoreWith(StoreArgs)
UidStore == UidStoreWith(StoreArgs)

ExpungeOk == [bad |-> FALSE, err |-> FALSE, seq |-> SeqAll, o1 |-> MidbOk,
              o2 |-> MidbOk]
ExpungeArgs == {ExpungeOk, [ExpungeOk EXCEPT !.o2 = MidbDown]}

Expunge ==
    /\ CommandPhase
    /\ \E tag \in CmdTags, a \in ExpungeArgs :
          Apply("EXPUNGE", tag, a, imap_cmd_parser_expunge(ctx, tag, a))

UidExpunge ==
    /\ CommandPhase
    /\ \E tag \in CmdTags,
          a \in ExpungeArgs \cup {[ExpungeOk EXCEPT !.bad = TRUE]} :
          Apply("UID EXPUNGE", tag, a,
                imap_cmd_parser_uid_expunge(ctx, tag, a))

\* The outcomes of the file operations and of insert_mail that the end
\* of an APPEND meets, each failure with all before it succeeding.
EndOk == [fstat_ok |-> TRUE, read_ok |-> TRUE, parse_ok |-> TRUE,
          eml_ok |-> TRUE, close_ok |-> TRUE, o_ins |-> MidbOk,
          seen_at |-> 1, poll_fail |-> "get_uid", uidvalid |-> 1]
EndArgs ==
    {EndOk, [EndOk EXCEPT !.fstat_ok = FALSE], [EndOk EXCEPT !.read_ok = FALSE],
     [EndOk EXCEPT !.parse_ok = FALSE], [EndOk EXCEPT !.eml_ok = FALSE],
     [EndOk EXCEPT !.close_ok = FALSE], [EndOk EXCEPT !.seen_at = APPEND_POLLS + 1]}
    \cup {[EndOk EXCEPT !.o_ins = o] : o \in MidbFailures}

BeginOk == [bad |-> FALSE, name |-> INBOX, flags |-> {}, open_ok |-> TRUE,
            write_ok |-> TRUE]
BeginArgs ==
    {[BeginOk EXCEPT !.bad = TRUE], [BeginOk EXCEPT !.open_ok = FALSE],
     [BeginOk EXCEPT !.write_ok = FALSE]}
    \cup {[BeginOk EXCEPT !.name = n, !.flags = f] :
          n \in FolderArgs, f \in {{}, {"S"}}}

\* At most MaxAppends message ids are handed out.
AppendBeginWith(args) ==
    /\ CommandPhase /\ fs.seq <= MaxAppends
    /\ \E tag \in CmdTags, a \in args :
          Apply("APPEND", tag, a, imap_cmd_parser_append_begin2(ctx, tag, a))

AppendBegin == AppendBeginWith(BeginArgs)

\* The literal has been received in full.
AppendEnd ==
    /\ CanRead /\ ctx.message_fd
    /\ \E a \in EndArgs :
          Apply("APPEND end", "", a, imap_cmd_parser_append_end2(ctx, a))

\* The I/O layer has written the stream out; the session reads again.
Flush ==
    /\ ~closed /\ ctx.sched_stat \in {"wrlst", "wrdat"}
    /\ ctx' = [ctx EXCEPT !.sched_stat = "rdcmd"]
    /\ UNCHANGED <<closed, cfg, hub, banned, midb, fs, cmd, reply, untagged, peer>>

\* The I/O layer completes the handshake STARTTLS asked for, or fails it
\* and closes.
TlsHandshake ==
    /\ ~closed /\ ctx.sched_stat = "stls"
    /\ \E ok \in BOOLEAN :
          ctx' = [ctx EXCEPT !.ssl = ok,
                             !.sched_stat = IF ok THEN "rdcmd" ELSE "closing"]
    /\ UNCHANGED <<closed, cfg, hub, banned, midb, fs, cmd, reply, untagged, peer>>

\* The connection is closed, by the server after a closing reply or by the
\* client at any time: the session leaves the hub, its scratch file
\* is deleted and the context is cleared.
ConnClose ==
    /\ ~closed
    /\ closed' = TRUE
    /\ hub' = hub \ {Me}
    /\ fs' = [fs EXCEPT !.tmp = @ \ {ctx.file_path}, !.scratch = NoScratch]
    /\ ctx' = [InitCtx EXCEPT !.sched_stat = "closing"]
    /\ UNCHANGED <<cfg, banned, midb, cmd, reply, untagged, peer>>

\* --------------------------------------------------------- MIDB, files
NoMidb == [folders |-> {}, subs |-> {}, mails |-> <<>>, uidnext |-> <<>>]


Configs ==
    {[support_tls |-> s, force_tls |-> f, max_auth_times |-> m] :
        s \in BOOLEAN, f \in BOOLEAN, m \in 1..MaxAuthCfg}

\* ------------------------------------------- authentication, on its own
AuthInit ==
    /\ ctx = InitCtx
    /\ closed = FALSE
    /\ cfg \in Configs
    /\ hub = {}
    /\ banned = {}
    /\ midb = NoMidb
    /\ fs = NoFiles
    /\ cmd = [sid |-> Me, name |-> "", tag |-> "", a |-> [bad |-> FALSE],
              info |-> NoInfo, notes |-> NoNotes]
    /\ reply = NoLine
    /\ untagged = <<>>
    /\ peer = NoPeer

AuthNext ==
    \/ Login \/ Authenticate \/ Username \/ Password \/ Starttls
    \/ TlsHandshake \/ Logout \/ Noop \/ ConnClose

SpecAuth == AuthInit /\ [][AuthNext]_vars

\* ---------------------------------------------------- the session machine
Mid(i) == "m" \o ToString(i)

\* MaxMails messages, those of odd uid \Deleted.
SomeMails == [i \in 1..MaxMails |-> IF i % 2 = 1 THEN {"D"} ELSE {}]

\* The store at the start: the inbox with one message per entry of
\* flagseq, and an empty user folder.
MailStore(flagseq) ==
    [folders |-> {S_inbox, encode_hex_binary(Work)},
     subs |-> {},
     mails |-> [f \in {S_inbox, encode_hex_binary(Work)} |->
                  IF f = S_inbox
                  THEN [i \in 1..Len(flagseq) |->
                          [uid |-> 2 * i, mid |-> Mid(i), flags |-> flagseq[i]]]
                  ELSE <<>>],
     uidnext |-> [f \in {S_inbox, encode_hex_binary(Work)} |->
                    IF f = S_inbox THEN 2 * Len(flagseq) + 1 ELSE 1]]

Init ==
    /\ ctx = InitCtx
    /\ closed = FALSE
    /\ cfg = [support_tls |-> TRUE, force_tls |-> FALSE,
              max_auth_times |-> MaxAuthCfg]
    /\ hub = {}
    /\ banned = {}
    /\ midb = MailStore(SomeMails)
    /\ fs = Files({Mid(i) : i \in 1..MaxMails})
    /\ cmd = [sid |-> Me, name |-> "", tag |-> "", a |-> [bad |-> FALSE],
              info |-> NoInfo, notes |-> NoNotes]
    /\ reply = NoLine
    /\ untagged = <<>>
    /\ peer = NoPeer

\* In the session machine the logins are of the owner of a store and of a
\* user acting for another store.
SessionNames == {[p |-> "alice", t |-> NoTarget], [p |-> "carol", t |-> "bob"]}

SessionLogin ==
    LoginWith({a \in LoginArgs :
                 a.bad \/ ([p |-> a.p, t |-> a.t] \in SessionNames
                           /\ a.judge /\ a.pwok = a.owner)})

SessionUsername == UsernameWith(SessionNames)

Next ==
    \/ SessionLogin \/ Authenticate \/ SessionUsername \/ Password
    \/ Logout \/ ConnClose
    \/ Select \/ Examine \/ Close \/ Unselect

Spec == Init /\ [][Next]_vars

\* ------------------------------------------------ copying, on its own
\* A store whose inbox holds k messages, none flagged.
CopyInit ==
    /\ ctx = InitCtx
    /\ closed = FALSE
    /\ cfg = [support_tls |-> TRUE, force_tls |-> FALSE,
              max_auth_times |-> MaxAuthCfg]
    /\ hub = {}
    /\ banned = {}
    /\ \E k \in 0..MaxMails :
          /\ midb = MailStore([i \in 1..k |-> {}])
          /\ fs = Files({Mid(i) : i \in 1..k})
    /\ cmd = [sid |-> Me, name |-> "", tag |-> "", a |-> [bad |-> FALSE],
              info |-> NoInfo, notes |-> NoNotes]
    /\ reply = NoLine
    /\ untagged = <<>>
    /\ peer = NoPeer

AliceIn == [bad |-> FALSE, p |-> "alice", t |-> NoTarget, judge |-> TRUE,
            pwok |-> TRUE, owner |-> FALSE]
InboxOk == [bad |-> FALSE, name |-> INBOX, o1 |-> MidbOk, o2 |-> MidbOk,
            between |-> 0]

AliceLogin == LoginWith({AliceIn})
InboxSelect == SelectWith({InboxOk})

CopyNext == AliceLogin \/ InboxSelect \/ Copy \/ UidCopy \/ Flush

SpecCopy == CopyInit /\ [][CopyNext]_vars

\* ----------------------------------------------- appending, on its own
AppendInit ==
    /\ ctx = InitCtx
    /\ closed = FALSE
    /\ cfg = [support_tls |-> TRUE, force_tls |-> FALSE,
              max_auth_times |-> MaxAuthCfg]
    /\ hub = {}
    /\ banned = {}
    /\ midb = MailStore(<<>>)
    /\ fs = Files({})
    /\ cmd = [sid |-> Me, name |-> "", tag |-> "", a |-> [bad |-> FALSE],
              info |-> NoInfo, notes |-> NoNotes]
    /\ reply = NoLine
    /\ untagged = <<>>
    /\ peer = NoPeer

AppendNext ==
    AliceLogin \/ InboxSelect \/ AppendBegin \/ AppendEnd \/ ConnClose

SpecAppend == AppendInit /\ [][AppendNext]_vars

\* ------------------------------------------------- the second session
\* The second session selects the inbox, leaves it, appends a message
\* that carries \Deleted while the inbox has room, asks for nothing
\* (NOOP, an echo point) and sends a command that is refused before its
\* echo point.
PeerSelect ==
    \E tag \in CmdTags :
       ApplyPeer("SELECT", tag, InboxOk,
                 imap_cmd_parser_selex(peer.ctx, tag, InboxOk, FALSE))

PeerUnselect ==
    \E tag \in CmdTags :
       ApplyPeer("UNSELECT", tag, [bad |-> FALSE],
                 imap_cmd_parser_unselect(peer.ctx))

PeerNoop ==
    /\ peer.ctx.proto_stat = "select"
    /\ \E tag \in CmdTags :
          ApplyPeer("NOOP", tag, [bad |-> FALSE],
                    imap_cmd_parser_noop(peer.ctx))

PeerRefused ==
    /\ peer.ctx.proto_stat = "select"
    /\ \E tag \in CmdTags :
          ApplyPeer("STORE", tag, [StoreOk EXCEPT !.bad = TRUE],
                    imap_cmd_parser_store(peer.ctx,
                                          [StoreOk EXCEPT !.bad = TRUE]))

DeletedLine == [LineOk EXCEPT !.name = INBOX, !.flags = {"D"}]

PeerAppend ==
    /\ fs.seq <= MaxAppends /\ Len(MailsOf(midb, S_inbox)) <= MaxMails
    /\ \E tag \in CmdTags :
          ApplyPeer("APPEND", tag, DeletedLine,
                    imap_cmd_parser_append(peer.ctx, tag, DeletedLine))

\* --------------------------------------------- EXPUNGE with two sessions
\* The inbox starts with MaxMails messages, all of them \Deleted or
\* every other one.
ExpungeInit ==
    /\ ctx = InitCtx
    /\ closed = FALSE
    /\ cfg = [support_tls |-> TRUE, force_tls |-> FALSE,
              max_auth_times |-> MaxAuthCfg]
    /\ hub = {}
    /\ banned = {}
    /\ \E flagseq \in {SomeMails, [i \in 1..MaxMails |-> {"D"}]} :
          midb = MailStore(flagseq)
    /\ fs = Files({Mid(i) : i \in 1..MaxMails})
    /\ cmd = [sid |-> Me, name |-> "", tag |-> "", a |-> [bad |-> FALSE],
              info |-> NoInfo, notes |-> NoNotes]
    /\ reply = NoLine
    /\ untagged = <<>>
    /\ peer = NoPeer

\* UID EXPUNGE of every UID and of the first message's.
UidExpungeSets ==
    \E tag \in CmdTags,
       a \in {ExpungeOk, [ExpungeOk EXCEPT !.seq = <<[lo |-> 2, hi |-> 2]>>]} :
       /\ CommandPhase
       /\ Apply("UID EXPUNGE", tag, a, imap_cmd_parser_uid_expunge(ctx, tag, a))

ExpungeNext ==
    \/ AliceLogin \/ InboxSelect \/ Expunge \/ UidExpungeSets \/ Flush
    \/ PeerSelect \/ PeerNoop \/ PeerAppend

SpecExpunge == ExpungeInit /\ [][ExpungeNext]_vars

\* ------------------------------------------ every command, in each phase
PhaseExamine == ExamineWith({InboxOk})
PhaseCopyArgs == {[CopyOk EXCEPT !.bad = TRUE], [CopyOk EXCEPT !.failat = 1]}
PhaseCopy == CopyWith(PhaseCopyArgs)
PhaseUidCopy == UidCopyWith(PhaseCopyArgs)
PhaseAppend ==
    AppendLineWith({[LineOk EXCEPT !.bad = TRUE],
                    [LineOk EXCEPT !.parse_ok = FALSE]})
PhaseIdle == IdleWith({[bad |-> TRUE]})
PhaseAppendBegin == AppendBeginWith({[BeginOk EXCEPT !.bad = TRUE]})

PhaseClose ==
    /\ CommandPhase
    /\ \E tag \in CmdTags, a \in {[o1 |-> MidbOk, o2 |-> MidbOk]} :
          Apply("CLOSE", tag, a, imap_cmd_parser_close(ctx, a))

PhaseNext ==
    \/ AliceLogin \/ InboxSelect \/ PhaseExamine \/ PhaseClose \/ Unselect
    \/ Create \/ Delete \/ Rename \/ Subscribe \/ Unsubscribe
    \/ List \/ Xlist \/ Lsub \/ Status \/ PhaseAppend \/ PhaseAppendBegin
    \/ PhaseIdle \/ Check \/ Expunge \/ Search \/ Fetch \/ Store
    \/ PhaseCopy \/ UidSearch \/ UidFetch \/ UidStore \/ PhaseUidCopy
    \/ UidExpunge \/ Flush

SpecPhase == Init /\ [][PhaseNext]_vars

\* ================================================================ claims
\* A step in which the session read and handled one line.
CmdStep == closed' = closed /\ ctx.sched_stat = "rdcmd"

Phases == {"noauth", "username", "password", "auth", "select"}

\* C1: in every reachable state the phase is select if and only if the
\* selected-folder name is non-empty and the session is registered with
\* the notification hub.
C1_SelectIffFolderAndHub ==
    (ctx.proto_stat = "select") <=> (ctx.selected_folder # <<>> /\ Me \in hub)

\* A folder was selected while another was selected, and the session is in
\* select with the new folder and registered.
C1_Witness ==
    /\ ctx.proto_stat = "select" /\ cmd.name = "EXAMINE"
    /\ ctx.selected_folder = encode_hex_binary(Work) /\ Me \in hub
    /\ ctx.b_readonly

\* C2: once the session is in auth or select, no command step takes it
\* below auth; LOGIN and AUTHENTICATE are then rejected and change
\* nothing of the session.
C2_NeverBelowAuth ==
    [][(CmdStep /\ is_authed(ctx)) =>
         /\ is_authed(ctx')
         /\ cmd'.name \in {"LOGIN", "AUTHENTICATE"} =>
               /\ reply'.code \in {1800, 1802, 1803}
               /\ ctx' = ctx /\ hub' = hub]_vars

\* LOGIN was rejected in the select phase, which the session is still in.
C2_Witness ==
    /\ cmd.name = "LOGIN" /\ reply.code = 1803
    /\ ctx.proto_stat = "select" /\ ctx.sched_stat = "rdcmd"

\* The last command was an authentication attempt whose credentials or
\* StoreOwner permission were refused.
AuthRefused == reply'.code \in {1903, 1904}

\* The commands that need an authenticated session, and those that need a
\* selected folder.
MailboxCommands ==
    {"SELECT", "EXAMINE", "CREATE", "DELETE", "RENAME", "SUBSCRIBE",
     "UNSUBSCRIBE", "LIST", "XLIST", "LSUB", "STATUS", "APPEND", "IDLE"}
MessageCommands ==
    {"CHECK", "CLOSE", "EXPUNGE", "UNSELECT", "SEARCH", "FETCH", "STORE",
     "COPY", "UID SEARCH", "UID FETCH", "UID STORE", "UID COPY",
     "UID EXPUNGE"}

\* C3: a mailbox command taken before authentication is answered with
\* reply 1804, a message command taken outside the select phase with reply
\* 1805, and either leaves the context, MIDB and the hub as they were.
C3_PhaseEnforced ==
    [][(CmdStep /\ ~ctx.message_fd)
        => /\ (cmd'.name \in MailboxCommands /\ ~is_authed(ctx))
                => (reply'.code = 1804 /\ ctx' = ctx /\ midb' = midb
                    /\ hub' = hub /\ fs' = fs)
           /\ (cmd'.name \in MessageCommands /\ ctx.proto_stat # "select")
                => (reply'.code = 1805 /\ ctx' = ctx /\ midb' = midb
                    /\ hub' = hub /\ fs' = fs)]_vars

\* FETCH was refused in the auth phase, the store holding a folder the
\* user made.
C3_Witness ==
    /\ cmd.name = "FETCH" /\ ~cmd.a.bad /\ reply.code = 1805
    /\ ctx.proto_stat = "auth"
    /\ Cardinality(midb.folders) = MaxFolders

\* C4: an authentication attempt that is refused adds one to the failure
\* counter, any other step of LOGIN or of the password step leaves it; the
\* user is banned and the connection closed exactly when a refusal brings
\* the counter to max_auth_times, and the counter never gets above it.
C4_FailuresCountedAndBanned ==
    [][(CmdStep /\ cmd'.name \in {"LOGIN", "password"}) =>
         /\ ctx'.auth_times = ctx.auth_times + (IF AuthRefused THEN 1 ELSE 0)
         /\ ctx'.auth_times <= cfg.max_auth_times
         /\ (cmd'.a.judge /\ ~cmd'.a.pwok /\ ~is_authed(ctx)
             /\ (cmd'.name = "LOGIN" => ~cmd'.a.bad /\ ~tls_required(ctx))
             /\ (cmd'.name = "password" => cmd'.a.b64ok)) => AuthRefused
         /\ (AuthRefused /\ ctx'.auth_times = cfg.max_auth_times)
               <=> (banned' # {} /\ ctx'.sched_stat = "closing"
                    /\ reply'.code = 1903)]_vars

\* The last of max_auth_times refused attempts: the user is banned and the
\* connection is being closed.
C4_Witness ==
    /\ cfg.max_auth_times = MaxAuthCfg /\ ctx.auth_times = MaxAuthCfg
    /\ reply.code = 1903 /\ banned # {} /\ ctx.sched_stat = "closing"

\* C5: with force_tls configured, a session is in auth or select only
\* over a connection on which TLS is active, whatever support_tls is.
C5_ForceTlsNoPlainAuth ==
    (cfg.force_tls /\ is_authed(ctx)) => ctx.ssl

\* C6: STARTTLS starts the TLS upgrade only in noauth with TLS supported
\* and not yet active; in every other phase the handler rejects it and
\* leaves the session as it was.
C6_StarttlsOnlyInNoauth ==
    /\ ctx.sched_stat = "stls" =>
          /\ cmd.name = "STARTTLS" /\ reply.code = 1704
          /\ ctx.proto_stat = "noauth" /\ cfg.support_tls /\ ~ctx.ssl
    /\ \A p \in Phases \ {"noauth"} :
          LET c == [ctx EXCEPT !.proto_stat = p]
              r == imap_cmd_parser_starttls(c)
          IN r.ret.code \in {1800, 1801} /\ r.ctx = c
    /\ (cmd.name = "STARTTLS" /\ ctx.proto_stat # "noauth") =>
          reply.code \in {1800, 1801}

\* STARTTLS was rejected in the auth phase.
C6_Witness ==
    /\ cmd.name = "STARTTLS" /\ reply.code = 1801
    /\ ctx.proto_stat = "auth" /\ ctx.sched_stat = "rdcmd"
    /\ cfg.support_tls /\ ~ctx.ssl

\* The login name of the attempt a step made: LOGIN carries it, the
\* password step finds it where the username step left it.
StepPrimary == IF cmd'.name = "LOGIN" THEN cmd'.a.p ELSE ctx.username.name
StepTarget == IF cmd'.name = "LOGIN" THEN cmd'.a.t ELSE ctx.username.target

\* C7: an attempt to log in as primary!target, target another user, puts
\* the session in auth with the target's identity, maildir and language
\* only if the primary's credentials were accepted and the primary holds
\* StoreOwner on the target's store; otherwise the session is in noauth
\* afterwards and has not taken the target's identity.
C7_ImpersonationNeedsOwner ==
    [][(CmdStep /\ ~is_authed(ctx)
        /\ cmd'.name \in {"LOGIN", "password"}
        /\ (cmd'.name = "LOGIN" => ~cmd'.a.bad)
        /\ StepTarget # NoTarget /\ StepTarget # StepPrimary) =>
         /\ is_authed(ctx') =>
               /\ cmd'.a.pwok /\ cmd'.a.owner
               /\ ctx'.proto_stat = "auth"
               /\ ctx'.username = [name |-> StepTarget, target |-> NoTarget]
               /\ ctx'.maildir = sql_meta(StepTarget).maildir
               /\ ctx'.maildir # ""
         /\ ~(cmd'.a.pwok /\ cmd'.a.owner) =>
               /\ ctx'.proto_stat = "noauth"
               /\ ctx'.username.name # StepTarget
               /\ ctx'.maildir = ctx.maildir]_vars

\* carol logged in to bob's store.
C7_Witness ==
    /\ cmd.name = "LOGIN" /\ cmd.a.p = "carol" /\ cmd.a.t = "bob"
    /\ cmd.a.pwok /\ cmd.a.owner
    /\ ctx.proto_stat = "auth" /\ ctx.username.name = "bob"
    /\ ctx.maildir = sql_meta("bob").maildir

\* The folder a COPY step named as its destination.
CopyDst == imap_cmd_parser_imapfolder_to_sysfolder(ctx.lang, cmd'.a.dst).s

\* C9: after a COPY or UID COPY answered NO COPY failed, the destination
\* holds none of the messages the command copied: every message in it was
\* there before the command.
C9_FailedCopyLeavesNothing ==
    [][(CmdStep /\ cmd'.name \in {"COPY", "UID COPY"}
        /\ reply'.code \in {1916, 1917} /\ CopyDst \in midb.folders) =>
         \A i \in 1..Len(midb'.mails[CopyDst]) :
            midb'.mails[CopyDst][i].uid < midb.uidnext[CopyDst]]_vars

\* C10: the positions COPY's sequence-set resolver reads are positions
\* of the view and the UIDs it yields are UIDs of the view; on an empty
\* view it yields nothing and the command completes OK.
C10_SeqWithinView ==
    cmd.name = "COPY" =>
       LET n == Len(ctx.contents.m_vec)
       IN /\ cmd.info.deref \subseteq 1..n
          /\ cmd.info.uids \subseteq {ctx.contents.m_vec[i].uid : i \in 1..n}
          /\ (n = 0 /\ ctx.proto_stat = "select" /\ ~cmd.a.bad /\ ~cmd.a.err
              /\ cmd.a.dst = Work /\ cmd.a.o1 = MidbOk) =>
                /\ cmd.info.uids = {}
                /\ reply.code = 1722

\* A range that ends one past the view resolved to the whole view.
C10_Witness ==
    /\ cmd.name = "COPY" /\ Len(ctx.contents.m_vec) = MaxMails
    /\ cmd.a.seq = <<[lo |-> 1, hi |-> MaxMails + 1]>>
    /\ cmd.info.deref = 1..MaxMails
    /\ reply.code = 1722

\* The message id of the APPEND a step began or ended.
StepMid == IF cmd'.name = "APPEND" THEN append_mid(fs) ELSE ctx.mid

\* C8: when the begin or the end of a literal APPEND fails, neither
\* tmp/<mid> nor eml/<mid> exists afterwards.
C8_FailedAppendLeavesNoFile ==
    [][(CmdStep /\ cmd'.name \in {"APPEND", "APPEND end"}
        /\ ~(cmd'.name = "APPEND" /\ ctx'.message_fd)
        /\ ~(cmd'.name = "APPEND end" /\ reply'.code = 1715)) =>
         /\ StepMid \notin fs'.tmp
         /\ StepMid \notin fs'.eml]_vars

\* A command of the first session, as against one of the second.
CtxStep == CmdStep /\ cmd'.sid = Me

\* The "* n EXPUNGE" lines among the lines written.
Expunged(lines) == SelectSeq(lines, LAMBDA x : x.kind = "EXPUNGE")
Descends(lines) ==
    \A i \in 1..Len(lines), j \in 1..Len(lines) :
       (i < j /\ lines[i].kind = "EXPUNGE" /\ lines[j].kind = "EXPUNGE")
          => lines[i].n > lines[j].n

InUidSet(seq, uid) ==
    \E k \in 1..Len(seq) : uint_le(seq[k].lo, uid) /\ uint_le(uid, seq[k].hi)

FlagChoice == <<{"R"}, {"S", "R"}, {"D"}, {"S"}>>

FlagSeqs ==
    {[i \in 1..MaxMails |-> FlagChoice[((i + k) % 4) + 1]] : k \in 0..3}

FetchInit ==
    /\ ctx = InitCtx
    /\ closed = FALSE
    /\ cfg = [support_tls |-> TRUE, force_tls |-> FALSE,
              max_auth_times |-> MaxAuthCfg]
    /\ hub = {}
    /\ banned = {}
    /\ \E flagseq \in FlagSeqs : midb = MailStore(flagseq)
    /\ fs = Files({Mid(i) : i \in 1..MaxMails})
    /\ cmd = [sid |-> Me, name |-> "", tag |-> "", a |-> [bad |-> FALSE],
              info |-> NoInfo, notes |-> NoNotes]
    /\ reply = NoLine
    /\ untagged = <<>>
    /\ peer = NoPeer

InboxExamine == ExamineWith({InboxOk})

\* The item lists a client sends: flags alone, body items without PEEK,
\* PEEK with metadata, and the whole message.
ItemLists ==
    {<<"FLAGS">>, <<"BODY[]", "FLAGS", "RFC822.TEXT">>,
     <<"BODY.PEEK[]", "FLAGS", "RFC822.HEADER">>, <<"RFC822", "FLAGS">>}

FetchItemArgs ==
    {[FetchOk EXCEPT !.items = it, !.seq = s] :
        it \in ItemLists, s \in {SeqAll, SeqFirst}}

FetchItems == FetchWith(FetchItemArgs)
UidFetchItems == UidFetchWith(FetchItemArgs)

FetchNext ==
    \/ AliceLogin \/ InboxSelect \/ InboxExamine \/ FetchItems
    \/ UidFetchItems \/ Flush \/ PeerSelect \/ PeerNoop

SpecFetch == FetchInit /\ [][FetchNext]_vars

\* A FETCH or UID FETCH of this session that completed.
Fetched ==
    /\ CtxStep /\ cmd'.name \in {"FETCH", "UID FETCH"}
    /\ ctx.proto_stat = "select"
    /\ reply'.code \in {1720, 1728}

\* The messages the command rendered a line for, as MIDB held them when
\* the command began.
Rendered ==
    LET xs == MailsOf(midb, ctx.selected_folder)
    IN {xs[k] : k \in {j \in 1..Len(xs) :
                         \E i \in 1..Len(untagged') :
                            /\ untagged'[i].kind = "RESPONSE"
                            /\ untagged'[i].uid = xs[j].uid}}

FlagsAfter(x) ==
    LET ys == MailsOf(midb', ctx.selected_folder)
    IN UNION {ys[k].flags : k \in {j \in 1..Len(ys) : ys[j].uid = x.uid}}

ReadsBody(items) ==
    \E i \in 1..Len(items) : items[i] \in {"BODY[]", "RFC822", "RFC822.TEXT"}

SeenCalls(x) ==
    Cardinality({i \in 1..Len(cmd'.info.calls) :
                    /\ cmd'.info.calls[i].op = "set"
                    /\ cmd'.info.calls[i].mid = x.mid
                    /\ "S" \in cmd'.info.calls[i].bits})

FlagCasts(x) ==
    Cardinality({i \in 1..Len(cmd'.notes.flags) :
                    cmd'.notes.flags[i] = x.uid})

\* C13: in a writable session a FETCH with body items without PEEK
\* issues, for a message not yet seen, exactly one set-\Seen call and one
\* flag broadcast, after which MIDB holds \Seen for it, however many
\* such items are listed; for a message already seen it issues neither.
C13_SeenSetOnce ==
    [][Fetched /\ ~ctx.b_readonly /\ ReadsBody(cmd'.a.items)
       => \A x \in Rendered :
             IF "S" \notin x.flags
             THEN /\ SeenCalls(x) = 1
                  /\ FlagCasts(x) = 1
                  /\ "S" \in FlagsAfter(x)
             ELSE /\ SeenCalls(x) = 0
                  /\ FlagCasts(x) = 0]_vars

C13_Witness ==
    /\ cmd.sid = Me /\ cmd.name = "FETCH"
    /\ reply.code = 1720
    /\ cmd.a.items = <<"BODY[]", "FLAGS", "RFC822.TEXT">>
    /\ Len(cmd.info.calls) = 1
    /\ Len(cmd.notes.flags) = 1
    /\ \E i \in 1..Len(untagged) :
          untagged[i].kind = "RESPONSE" /\ "S" \notin untagged[i].flags
                                        /\ "R" \in untagged[i].flags


PeekOnly(items) ==
    /\ \E i \in 1..Len(items) : items[i] = "BODY.PEEK[]"
    /\ ~ReadsBody(items)

SeenIn(m, folder) ==
    LET xs == MailsOf(m, folder)
    IN {xs[k].uid : k \in {j \in 1..Len(xs) : "S" \in xs[j].flags}}

\* C14: a FETCH whose body items are all BODY.PEEK[...] issues no
\* set-\Seen call, leaves the \Seen flags of MIDB as they were, and shows
\* \Seen in a rendered line only for a message that carried it before.
C14_PeekLeavesUnseen ==
    [][Fetched /\ PeekOnly(cmd'.a.items)
       => /\ \A i \in 1..Len(cmd'.info.calls) :
                ~(cmd'.info.calls[i].op = "set"
                  /\ "S" \in cmd'.info.calls[i].bits)
          /\ SeenIn(midb', ctx.selected_folder)
                = SeenIn(midb, ctx.selected_folder)
          /\ \A i \in 1..Len(untagged') :
                (untagged'[i].kind = "RESPONSE" /\ "S" \in untagged'[i].flags)
                => untagged'[i].uid \in SeenIn(midb, ctx.selected_folder)]_vars

C14_Witness ==
    /\ cmd.sid = Me /\ cmd.name \in {"FETCH", "UID FETCH"}
    /\ reply.code \in {1720, 1728}
    /\ ~ctx.b_readonly
    /\ PeekOnly(cmd.a.items)
    /\ Len(untagged) = MaxMails
    /\ \E i \in 1..Len(untagged) :
          untagged[i].kind = "RESPONSE" /\ "S" \notin untagged[i].flags
    /\ SeenIn(midb, ctx.selected_folder) # {2 * i : i \in 1..MaxMails}


\* C15: in a writable session, a message that carried \Recent when FETCH
\* rendered its line does not carry \Recent in MIDB afterwards, seen or
\* not, body read or not.
C15_RecentCleared ==
    [][Fetched /\ ~ctx.b_readonly
       => \A x \in Rendered : "R" \in x.flags => "R" \notin FlagsAfter(x)]_vars


\* --------------------------------------------- a read-only selection
StoreKeywords ==
    {"FLAGS", "FLAGS.SILENT", "+FLAGS", "+FLAGS.SILENT", "-FLAGS",
     "-FLAGS.SILENT"}

StoreFlagArgs ==
    {[StoreOk EXCEPT !.keyword = k, !.flag_bits = r, !.seq = s] :
        k \in StoreKeywords, r \in {{"S"}, {"D", "F"}},
        s \in {SeqFirst, SeqAll}}

StoreFlags == StoreWith(StoreFlagArgs)
UidStoreFlags == UidStoreWith(StoreFlagArgs)

CloseOk == \E tag \in CmdTags :
    /\ CommandPhase
    /\ Apply("CLOSE", tag, [o1 |-> MidbOk, o2 |-> MidbOk],
             imap_cmd_parser_close(ctx, [o1 |-> MidbOk, o2 |-> MidbOk]))

\* The session examines the inbox and never selects it for writing.
ReadonlyNext ==
    \/ AliceLogin \/ InboxExamine \/ FetchItems \/ UidFetchItems
    \/ StoreFlags \/ UidStoreFlags \/ Expunge \/ UidExpungeSets \/ CloseOk
    \/ Flush

SpecReadonly == FetchInit /\ [][ReadonlyNext]_vars

\* C16: a command of a session that has its mailbox selected read-only
\* leaves the messages of MIDB and the files as they are, issues no flag
\* call and no broadcast; STORE, UID STORE, EXPUNGE and UID EXPUNGE are
\* answered with the read-only refusal or an argument error.
C16_ReadonlyFrame ==
    [][(CtxStep /\ ctx.proto_stat = "select" /\ ctx.b_readonly
        /\ cmd'.name \in {"FETCH", "UID FETCH", "STORE", "UID STORE",
                          "EXPUNGE", "UID EXPUNGE", "CLOSE"})
       => /\ midb'.mails = midb.mails
          /\ fs'.eml = fs.eml
          /\ cmd'.info.calls = <<>>
          /\ cmd'.notes = NoNotes
          /\ cmd'.name \in {"STORE", "UID STORE", "EXPUNGE", "UID EXPUNGE"}
                => reply'.code \in {1800, 1806}]_vars

C16_Witness ==
    /\ cmd.sid = Me /\ cmd.name = "UID STORE" /\ reply.code = 1806
    /\ ctx.proto_stat = "select" /\ ctx.b_readonly
    /\ \E i \in 1..MaxMails : {"R"} \in
          {MailsOf(midb, ctx.selected_folder)[i].flags}


\* ------------------------------------------------------------ CLOSE
CloseNext ==
    \/ AliceLogin \/ InboxSelect \/ InboxExamine \/ Close
    \/ PeerSelect \/ PeerAppend \/ PeerNoop

SpecClose == ExpungeInit /\ [][CloseNext]_vars

Closing == CtxStep /\ cmd'.name = "CLOSE" /\ ctx.proto_stat = "select"

\* C17: CLOSE in phase select leaves the session in phase auth with no
\* selected folder and out of the hub, whatever MIDB answers; when the
\* selection was writable and MIDB answered, the folder keeps exactly the
\* messages without \Deleted and the files of the others are gone; a file
\* is removed only when remove_mail succeeded and took its message.
C17_CloseLeavesAndExpunges ==
    [][Closing
       => LET xs == MailsOf(midb, ctx.selected_folder)
              ys == MailsOf(midb', ctx.selected_folder)
              ok == cmd'.a.o1.r = "OK" /\ cmd'.a.o2.r = "OK"
          IN /\ ctx'.proto_stat = "auth"
             /\ ctx'.selected_folder = <<>>
             /\ Me \notin hub'
             /\ (~ctx.b_readonly /\ ok)
                   => /\ ys = SelectSeq(xs, LAMBDA x : "D" \notin x.flags)
                      /\ \A i \in 1..Len(xs) :
                            "D" \in xs[i].flags => xs[i].mid \notin fs'.eml
             /\ \A mid \in fs.eml \ fs'.eml :
                   /\ ok
                   /\ \A i \in 1..Len(ys) : ys[i].mid # mid]_vars

C17_Witness ==
    /\ cmd.sid = Me /\ cmd.name = "CLOSE" /\ cmd.a.o2.r # "OK"
    /\ reply.code = 1717
    /\ ctx.proto_stat = "auth" /\ Me \notin hub /\ ~ctx.b_readonly
    /\ \E i \in 1..Len(MailsOf(midb, S_inbox)) :
          /\ "D" \in MailsOf(midb, S_inbox)[i].flags
          /\ MailsOf(midb, S_inbox)[i].mid \in fs.eml


\* ------------------------------------------- STORE and its flag lists
\* The flags the first message starts with, and the flag lists a client
\* sends.
PriorFlags ==
    {{}, {"S"}, {"R", "D"}, {"A", "F", "T"}, AllFlags}

Requested ==
    {{}, {"D", "F"}, {"R", "A", "T"}, AllFlags}

StoreInit ==
    /\ ctx = InitCtx
    /\ closed = FALSE
    /\ cfg = [support_tls |-> TRUE, force_tls |-> FALSE,
              max_auth_times |-> MaxAuthCfg]
    /\ hub = {}
    /\ banned = {}
    /\ \E f \in PriorFlags :
          midb = MailStore([i \in 1..MaxMails |->
                              IF i = 1 THEN f ELSE {"S"}])
    /\ fs = Files({Mid(i) : i \in 1..MaxMails})
    /\ cmd = [sid |-> Me, name |-> "", tag |-> "", a |-> [bad |-> FALSE],
              info |-> NoInfo, notes |-> NoNotes]
    /\ reply = NoLine
    /\ untagged = <<>>
    /\ peer = NoPeer

\* Every keyword with every list, and the two requests whose line rests
\* on get_flags with get_flags failing.
StoreRequests ==
    {[StoreOk EXCEPT !.keyword = k, !.flag_bits = r] :
        k \in StoreKeywords, r \in Requested}
    \cup {[StoreOk EXCEPT !.keyword = k, !.get_ok = FALSE] :
            k \in {"+FLAGS", "-FLAGS"}}

StoreFirst == StoreWith(StoreRequests)
UidStoreFirst ==
    UidStoreWith({[x EXCEPT !.seq = <<[lo |-> 2, hi |-> 2]>>] :
                     x \in StoreRequests})

StoreNext == AliceLogin \/ InboxSelect \/ StoreFirst \/ UidStoreFirst

SpecStore == StoreInit /\ [][StoreNext]_vars

Stored ==
    /\ CtxStep /\ cmd'.name \in {"STORE", "UID STORE"}
    /\ ctx.proto_stat = "select"
    /\ reply'.code \in {1721, 1724}

Base(keyword) ==
    CASE keyword \in {"FLAGS", "FLAGS.SILENT"} -> "FLAGS"
      [] keyword \in {"+FLAGS", "+FLAGS.SILENT"} -> "+FLAGS"
      [] OTHER -> "-FLAGS"

\* C18: after STORE or UID STORE of the first message, whose flags were F,
\* with the flag list R, MIDB holds R for FLAGS, F with R for +FLAGS and
\* F without R for -FLAGS, and the other messages are as they were; the
\* silent keywords do the same and send the issuing session no line, the
\* others send it the line of the message.
C18_StoreSemantics ==
    [][Stored
       => LET xs == MailsOf(midb, ctx.selected_folder)
              ys == MailsOf(midb', ctx.selected_folder)
              F  == xs[1].flags
              R  == cmd'.a.flag_bits
              kw == cmd'.a.keyword
              sent == {i \in 1..Len(untagged') :
                          untagged'[i].kind = "STORED"}
          IN /\ Len(ys) = Len(xs)
             /\ ys[1].flags = (CASE Base(kw) = "FLAGS" -> R
                                 [] Base(kw) = "+FLAGS" -> F \cup R
                                 [] OTHER -> F \ R)
             /\ \A i \in 2..Len(xs) : ys[i] = xs[i]
             /\ kw # Base(kw) => sent = {}
             /\ (kw = Base(kw) /\ cmd'.a.get_ok)
                   => \E i \in sent : /\ untagged'[i].n = 1
                                      /\ untagged'[i].flags = ys[1].flags]_vars

C18_Witness ==
    /\ cmd.sid = Me /\ cmd.name = "UID STORE" /\ reply.code = 1724
    /\ cmd.a.keyword = "-FLAGS.SILENT" /\ cmd.a.flag_bits = {"D", "F"}
    /\ MailsOf(midb, S_inbox)[1].flags = {"R", "A", "T", "S"}
    /\ untagged = <<>>


\* -------------------------------------- STORE seen by a second session
PeerStoreArgs ==
    {[StoreOk EXCEPT !.keyword = "+FLAGS", !.flag_bits = {"F"}],
     [StoreOk EXCEPT !.keyword = "FLAGS.SILENT", !.flag_bits = {"D"},
                     !.seq = SeqAll],
     [StoreOk EXCEPT !.keyword = "-FLAGS", !.flag_bits = {"S"}]}

StoreSome == StoreWith(PeerStoreArgs)

PeerNext ==
    \/ AliceLogin \/ InboxSelect \/ StoreSome \/ Noop
    \/ PeerSelect \/ PeerUnselect \/ PeerNoop \/ PeerRefused

SpecPeer == FetchInit /\ [][PeerNext]_vars

\* A command of the second session.
PeerStep == cmd'.sid = Peer /\ ctx'.sched_stat = ctx.sched_stat

\* Both sessions have the same mailbox selected.
Together ==
    /\ ctx.proto_stat = "select" /\ peer.ctx.proto_stat = "select"
    /\ {Me, Peer} \subseteq hub
    /\ peer.ctx.selected_folder = ctx.selected_folder

\* The place of the first line of that kind, 0 when there is none.
First(lines, P(_)) ==
    LET at == {i \in 1..Len(lines) : P(lines[i])}
    IN IF at = {} THEN 0 ELSE CHOOSE i \in at : \A j \in at : i <= j

\* C19: when the first session's STORE has acted on a message while the
\* second has the same mailbox selected, the message stays noted for the
\* second session through its commands without an echo point, and its
\* next NOOP sends the FETCH line of the message, with the flags MIDB
\* then holds, before the tagged line.
C19_PeerToldBeforeTagged ==
    [][/\ (Stored /\ Together)
          => {cmd'.notes.flags[i] : i \in 1..Len(cmd'.notes.flags)}
                \subseteq peer'.ctx.f_flags
       /\ (PeerStep /\ cmd'.name # "NOOP"
           /\ peer.ctx.proto_stat = "select" /\ peer'.ctx.proto_stat = "select")
          => peer.ctx.f_flags \subseteq peer'.ctx.f_flags
       /\ (CtxStep /\ peer.ctx.proto_stat = "select")
          => peer.ctx.f_flags \subseteq peer'.ctx.f_flags
       /\ (PeerStep /\ cmd'.name = "NOOP" /\ peer.ctx.proto_stat = "select")
          => /\ peer'.ctx.f_flags = {}
             /\ \A u \in peer.ctx.f_flags :
                   LET xs == MailsOf(midb, peer.ctx.selected_folder)
                       x == xs[CHOOSE k \in 1..Len(xs) : xs[k].uid = u]
                       line == First(peer'.sent,
                                  LAMBDA l : l.kind = "FETCH" /\ l.uid = u)
                       tagged == First(peer'.sent,
                                  LAMBDA l : l.kind = "TAGGED")
                   IN /\ line > 0 /\ line < tagged
                      /\ peer'.sent[line].flags = x.flags
                      /\ peer'.sent[line].n
                            \in get_itemx(peer.ctx.contents.m_vec, u)]_vars

C19_Witness ==
    /\ cmd.sid = Peer /\ cmd.name = "NOOP"
    /\ \E i \in 1..Len(peer.sent) :
          /\ peer.sent[i].kind = "FETCH"
          /\ "F" \in peer.sent[i].flags
          /\ peer.sent[i].uid = 2
    /\ peer.sent[Len(peer.sent)].kind = "TAGGED"
    /\ Len(peer.sent) = MaxMails + 1


\* An APPEND of the second session into the inbox that succeeded.
PeerAppended ==
    /\ PeerStep /\ cmd'.name = "APPEND" /\ cmd'.a.name = INBOX
    /\ peer'.sent[Len(peer'.sent)].n = 1715

Polled(base) ==
    {[base EXCEPT !.seen_at = k, !.poll_fail = f, !.uidvalid = v] :
     k \in 1..(APPEND_POLLS + 1), f \in {"summary_folder", "get_uid"},
     v \in {0, 1}}

AppendLinePolled == AppendLineWith(Polled(LineOk))

AppendBeginOk == AppendBeginWith({BeginOk})

AppendEndPolled ==
    /\ CanRead /\ ctx.message_fd
    /\ \E a \in Polled(EndOk) \cup {[EndOk EXCEPT !.o_ins = MidbDown]} :
          Apply("APPEND end", "", a, imap_cmd_parser_append_end2(ctx, a))

\* COPY and UID COPY of the whole view, the destination's UIDVALIDITY
\* reported as 1 or as 0.
CopyAll == CopyWith({CopyOk, [CopyOk EXCEPT !.uv = FALSE]})
UidCopyAll == UidCopyWith({CopyOk, [CopyOk EXCEPT !.uv = FALSE]})

PollNext ==
    AliceLogin \/ InboxSelect \/ AppendLinePolled \/ AppendBeginOk
    \/ AppendEndPolled \/ CopyAll \/ UidCopyAll \/ Flush

SpecPoll == CopyInit /\ [][PollNext]_vars

\* A step of APPEND in which insert_mail succeeded: the folder gained a
\* message.
Inserted ==
    /\ CtxStep /\ cmd'.name \in {"APPEND", "APPEND end"}
    /\ midb'.mails # midb.mails

\* The polls made: the summary_folder calls.
Polls(calls) ==
    Cardinality({i \in 1..Len(calls) : calls[i].op = "summary_folder"})

\* C21: once insert_mail has succeeded, APPEND ends with one tagged OK
\* (1715) after at least one and at most 10 polls of summary_folder and
\* get_uid; the OK carries the APPENDUID trailer exactly when one of the
\* polls answered on both calls; with a literal, the OK bears the tag
\* the begin phase saved, which stays as saved until the literal ends.
C21_AppendEndsAfterTenPolls ==
    [][/\ Inserted
          => /\ reply'.code = 1715
             /\ reply'.tag = IF cmd'.name = "APPEND" THEN cmd'.tag
                             ELSE ctx.tag_string
             /\ reply'.tag # ""
             /\ Polls(cmd'.info.calls) \in 1..10
             /\ Polls(cmd'.info.calls)
                   = IF cmd'.a.seen_at <= 10 THEN cmd'.a.seen_at ELSE 10
             /\ (reply'.text = "APPENDUID") <=> (cmd'.a.seen_at <= 10)
             /\ (reply'.text = "APPENDUID")
                   <=> (Len(cmd'.info.calls) > 0
                        /\ cmd'.info.calls[Len(cmd'.info.calls)].op
                              = "get_uid"
                        /\ cmd'.a.seen_at = Polls(cmd'.info.calls))
             /\ \A i \in 1..Len(untagged') : untagged'[i].kind # "TAGGED"
             /\ ctx'.sched_stat = "rdcmd"
       /\ (CtxStep /\ cmd'.name = "APPEND" /\ ctx'.message_fd)
          => ctx'.tag_string = cmd'.tag
       /\ (ctx.message_fd /\ ctx'.message_fd)
          => ctx'.tag_string = ctx.tag_string]_vars

\* A literal APPEND has ended with the trailer after the last poll
\* allowed, under the tag of its begin phase.
C21_Witness ==
    /\ cmd.name = "APPEND end" /\ reply.code = 1715
    /\ reply.text = "APPENDUID" /\ reply.tag \in CmdTags
    /\ cmd.a.seen_at = 10 /\ Polls(cmd.info.calls) = 10

\* C22: a tagged OK of APPEND, COPY or UID COPY that carries an
\* APPENDUID or COPYUID trailer never carries UIDVALIDITY 0 in it: when
\* MIDB reports 0 the trailer is left out.
C22_NoZeroUidvalidity ==
    (/\ cmd.name \in {"APPEND", "APPEND end", "COPY", "UID COPY"}
     /\ reply.text \in {"APPENDUID", "COPYUID"})
    => cmd.info.uidvalidity # 0

\* ------------------------------------------------ the name codec alone
\* The client names drawn: a top-level part - INBOX in three spellings,
\* the internal identifiers of the special folders as a client may type
\* them, their display names, and user names - alone, with a trailing
\* "/" or with one or two path parts below it.
TopNames ==
    {INBOX, S_inbox, <<"I","n","b","o","x">>,
     S_draft, S_sent, S_trash, S_junk, <<"D","R","A","F","T">>,
     foldername_get(default_lang, "DRAFT"),
     foldername_get(default_lang, "SENT"),
     foldername_get(default_lang, "DELETED"),
     foldername_get(default_lang, "JUNK"),
     <<"d","r","a","f","t","s">>, Work, New, <<"&", "-">>}
SubPaths == {<<>>, <<"/">>, <<"/", "N">>, <<"/", "N", "/", "o">>}
ClientNames == {t \o p : t \in TopNames, p \in SubPaths}

NoName == [ok |-> FALSE, s |-> <<>>]

\* A name is drawn; it is converted to the internal name; and that is
\* converted back.  cmd.a holds the name and the two results.
CodecInit ==
    /\ ctx = with_lang(adopt(InitCtx, sql_meta("alice")))
    /\ closed = FALSE
    /\ cfg = [support_tls |-> TRUE, force_tls |-> FALSE,
              max_auth_times |-> MaxAuthCfg]
    /\ hub = {}
    /\ banned = {}
    /\ midb = MailStore(<<>>)
    /\ fs = Files({})
    /\ \E x \in ClientNames :
          cmd = [sid |-> Me, name |-> "name", tag |-> "",
                 a |-> [bad |-> FALSE, x |-> x, sys |-> NoName,
                        back |-> NoName],
                 info |-> NoInfo, notes |-> NoNotes]
    /\ reply = NoLine
    /\ untagged = <<>>
    /\ peer = NoPeer

ToInternal ==
    /\ cmd.name = "name"
    /\ cmd' = [cmd EXCEPT
                 !.name = "imapfolder_to_sysfolder",
                 !.a.sys = imap_cmd_parser_imapfolder_to_sysfolder(
                               ctx.lang, cmd.a.x)]
    /\ UNCHANGED <<ctx, closed, cfg, hub, banned, midb, fs, reply, untagged,
                   peer>>

ToImap ==
    /\ cmd.name = "imapfolder_to_sysfolder" /\ cmd.a.sys.ok
    /\ cmd' = [cmd EXCEPT
                 !.name = "sysfolder_to_imapfolder",
                 !.a.back = imap_cmd_parser_sysfolder_to_imapfolder(
                                ctx.lang, cmd.a.sys.s)]
    /\ UNCHANGED <<ctx, closed, cfg, hub, banned, midb, fs, reply, untagged,
                   peer>>

CodecNext == ToInternal \/ ToImap

SpecCodec == CodecInit /\ [][CodecNext]_vars

\* C23: a client name converted to the internal name and back is the
\* name itself.
C23_NameRoundTrip ==
    cmd.name = "sysfolder_to_imapfolder"
    => cmd.a.back.ok /\ cmd.a.back.s = cmd.a.x

\* The names the conversion may turn into a fixed identifier: INBOX in
\* any case and the display names of the four special folders.
Reserved(x) ==
    \/ strcasecmp_eq(x, INBOX)
    \/ x \in {foldername_get(ctx.lang, f) :
              f \in {"DRAFT", "SENT", "DELETED", "JUNK"}}

\* C24: a top-level client name becomes one of inbox, draft, sent, trash
\* and junk only when it is INBOX in any case or the display name of a
\* special folder; every other top-level name becomes the lowercase hex
\* of its bytes.
C24_UserNamesNeverAlias ==
    (/\ cmd.name = "imapfolder_to_sysfolder"
     /\ SlashPos(cmd.a.x) = 0 /\ cmd.a.sys.ok)
    => IF Reserved(cmd.a.x)
       THEN cmd.a.sys.s \in {S_inbox, S_draft, S_sent, S_trash, S_junk}
       ELSE cmd.a.sys.s = encode_hex_binary(mutf7_to_utf8(cmd.a.x).s)

\* ------------------------------------------------------ the view alone
\* The UIDs MIDB may hold, and a listing of some of them: fetch_simple_uid
\* lists by ascending UID.
ViewUids == 1..(MaxUid + 1)
Listing(U) ==
    [i \in 1..Cardinality(U) |->
        [uid |-> upward(U)[i], mid |-> Mid(upward(U)[i]), flags |-> {}]]

\* The session starts without a view.  MIDB's listing of the inbox
\* changes to any other; the view is refreshed with fresh numbers (SELECT,
\* EXAMINE) and, once it has been, without (notifications), MIDB
\* answering or failing.  cmd.a tells the refresh and whether the view
\* has been built.
ViewInit ==
    /\ ctx = with_lang(adopt(InitCtx, sql_meta("alice")))
    /\ closed = FALSE
    /\ cfg = [support_tls |-> TRUE, force_tls |-> FALSE,
              max_auth_times |-> MaxAuthCfg]
    /\ hub = {}
    /\ banned = {}
    /\ \E U \in SUBSET ViewUids :
          midb = [MailStore(<<>>) EXCEPT !.mails[S_inbox] = Listing(U)]
    /\ fs = Files({})
    /\ cmd = [sid |-> Me, name |-> "", tag |-> "",
              a |-> [bad |-> FALSE, fresh_numbers |-> FALSE, o |-> MidbOk,
                     built |-> FALSE],
              info |-> NoInfo, notes |-> NoNotes]
    /\ reply = NoLine
    /\ untagged = <<>>
    /\ peer = NoPeer

Relist ==
    /\ \E U \in SUBSET ViewUids :
          midb' = [midb EXCEPT !.mails[S_inbox] = Listing(U)]
    /\ UNCHANGED <<ctx, closed, cfg, hub, banned, fs, cmd, reply, untagged,
                   peer>>

RefreshWith(fresh_numbers, o) ==
    \E r \in {refresh(ctx.contents, midb, S_inbox, fresh_numbers, o)} :
       /\ ctx' = [ctx EXCEPT !.contents = r.contents]
       /\ cmd' = [cmd EXCEPT
                    !.name = "refresh",
                    !.a = [bad |-> FALSE, fresh_numbers |-> fresh_numbers,
                           o |-> o,
                           built |-> cmd.a.built
                                     \/ (fresh_numbers /\ IsZero(r.ret))]]
       /\ UNCHANGED <<closed, cfg, hub, banned, midb, fs, reply, untagged,
                      peer>>

RefreshFresh == \E o \in MidbOutcomes : RefreshWith(TRUE, o)
RefreshMore == cmd.a.built /\ \E o \in MidbOutcomes : RefreshWith(FALSE, o)

ViewNext == Relist \/ RefreshFresh \/ RefreshMore

SpecView == ViewInit /\ [][ViewNext]_vars

\* C25: the items of the view are numbered 1..n in list order, after
\* every refresh of either kind and whatever MIDB lists.
C25_SequenceNumbersDense ==
    \A i \in 1..Len(ctx.contents.m_vec) : ctx.contents.m_vec[i].id = i

\* A view of two messages has grown by a third in a refresh without
\* fresh numbers.
C25_Witness ==
    /\ cmd.name = "refresh" /\ ~cmd.a.fresh_numbers
    /\ IsZero(m2icode(cmd.a.o.r, cmd.a.o.e))
    /\ Len(ctx.contents.m_vec) = 3
    /\ ctx.contents.m_vec[3].uid = 2

\* C26: in the view the UIDs increase strictly with the sequence number,
\* also after refreshes that append UIDs MIDB newly lists, lower or
\* higher than those known.
C26_UidsIncrease ==
    \A i \in 1..Len(ctx.contents.m_vec), j \in 1..Len(ctx.contents.m_vec) :
       i < j => ctx.contents.m_vec[i].uid < ctx.contents.m_vec[j].uid

\* C27: a refresh without fresh numbers, answered by MIDB or not, leaves
\* every entry of the view at its place with its UID and number; what it
\* adds comes behind them; when MIDB fails it adds nothing.
C27_IncrementalOnlyAppends ==
    [][(midb' = midb /\ cmd'.name = "refresh" /\ ~cmd'.a.fresh_numbers)
       => /\ Len(ctx'.contents.m_vec) >= Len(ctx.contents.m_vec)
          /\ \A i \in 1..Len(ctx.contents.m_vec) :
                /\ ctx'.contents.m_vec[i].uid = ctx.contents.m_vec[i].uid
                /\ ctx'.contents.m_vec[i].id = ctx.contents.m_vec[i].id
          /\ ~IsZero(m2icode(cmd'.a.o.r, cmd'.a.o.e))
             => ctx'.contents = ctx.contents]_vars

\* A refresh without fresh numbers has left a message in the view that
\* MIDB lists no more, and added one.
C27_Witness ==
    /\ cmd.name = "refresh" /\ ~cmd.a.fresh_numbers
    /\ Len(ctx.contents.m_vec) = 2
    /\ get_itemx(MailsOf(midb, S_inbox), ctx.contents.m_vec[1].uid) = {}
    /\ get_itemx(MailsOf(midb, S_inbox), ctx.contents.m_vec[2].uid) # {}

\* -------------------------------------------- the wildcard matcher alone
\* The names and patterns drawn: letters of both cases and "/" in names;
\* letters of the other case, "/", "*" and "%" in patterns.
NameChars == {"a", "B", "/"}
MaskChars == {"A", "b", "/", "*", "%"}
UpTo(A, n) == UNION {[1..k -> A] : k \in 0..n}

MatchInit ==
    /\ ctx = with_lang(adopt(InitCtx, sql_meta("alice")))
    /\ closed = FALSE
    /\ cfg = [support_tls |-> TRUE, force_tls |-> FALSE,
              max_auth_times |-> MaxAuthCfg]
    /\ hub = {}
    /\ banned = {}
    /\ midb = MailStore(<<>>)
    /\ fs = Files({})
    /\ \E folder \in UpTo(NameChars, MaxLen), mask \in UpTo(MaskChars, MaxLen) :
          cmd = [sid |-> Me, name |-> "", tag |-> "",
                 a |-> [bad |-> FALSE, folder |-> folder, mask |-> mask,
                        matched |-> FALSE],
                 info |-> NoInfo, notes |-> NoNotes]
    /\ reply = NoLine
    /\ untagged = <<>>
    /\ peer = NoPeer

WildcardMatch ==
    /\ cmd.name = ""
    /\ cmd' = [cmd EXCEPT
                 !.name = "wildcard_match",
                 !.a.matched = imap_cmd_parser_wildcard_match(
                                   cmd.a.folder, cmd.a.mask)]
    /\ UNCHANGED <<ctx, closed, cfg, hub, banned, midb, fs, reply, untagged,
                   peer>>

MatchNext == WildcardMatch

SpecMatch == MatchInit /\ [][MatchNext]_vars

\* The reference: the name is cut into as many consecutive pieces as the
\* pattern has characters; the piece of "*" is any run, the piece of "%"
\* any run without "/", the piece of any other character that character
\* in either case.
Piece(folder, cut, i) == SubSeq(folder, cut[i - 1] + 1, cut[i])
Matches(folder, mask) ==
    \E cut \in [0..Len(mask) -> 0..Len(folder)] :
       /\ cut[0] = 0 /\ cut[Len(mask)] = Len(folder)
       /\ \A i \in 1..Len(mask) :
             /\ cut[i - 1] <= cut[i]
             /\ CASE mask[i] = "*" -> TRUE
                  [] mask[i] = "%" -> SlashPos(Piece(folder, cut, i)) = 0
                  [] OTHER -> /\ cut[i] = cut[i - 1] + 1
                              /\ HX_toupper(folder[cut[i]])
                                    = HX_toupper(mask[i])

\* C28: the matcher ends on every name and pattern, and says "match"
\* exactly when the reference does.
C28_MatcherAgreesWithReference ==
    cmd.name = "wildcard_match"
    => cmd.a.matched = Matches(cmd.a.folder, cmd.a.mask)

\* "%" has been matched against a name with a "/" behind the part "%"
\* stands for, and refused for a name whose "/" it would have to cover.
C28_Witness ==
    /\ cmd.name = "wildcard_match"
    /\ cmd.a.mask = <<"A", "%">> /\ cmd.a.folder = <<"a", "/", "B">>
    /\ ~cmd.a.matched

\* ------------------------------------------------- CREATE and LIST
\* An account that holds the inbox and no user folder.
BareStore ==
    [folders |-> {S_inbox}, subs |-> {},
     mails |-> [f \in {S_inbox} |-> <<>>],
     uidnext |-> [f \in {S_inbox} |-> 1]]

Archive == <<"A","r","c","h","i","v","e">>
Archive2023 == Archive \o <<"/","2","0","2","3">>
ArchiveJan == Archive2023 \o <<"/","J","a","n">>
ArchiveStar == Archive \o <<"/","*">>
ArchivePercent == Archive \o <<"/","%">>

\* CREATE of the three-level name, of a top-level name and of names with
\* a wildcard (below an existing folder, below a new one, at the top),
\* MIDB answering or down; LIST with the two patterns and with "*", "%".
WildNames == {<<"W", "*">>, <<"N", "/", "%">>, Archive \o <<"/", "o", "*">>, <<"%", "/", "N">>}
CreateArgs ==
    {[NameOk EXCEPT !.name = n] : n \in {ArchiveJan, Work} \cup WildNames}
    \cup {[NameOk EXCEPT !.name = n, !.o1 = MidbDown, !.o2 = MidbDown] : n \in WildNames}
    \cup {[NameOk EXCEPT !.name = ArchiveJan, !.o2 = MidbDown]}

CreateNamed ==
    /\ CommandPhase
    /\ \E tag \in CmdTags, a \in CreateArgs :
          Apply("CREATE", tag, a, imap_cmd_parser_create(ctx, a))

ListPatterns ==
    /\ CommandPhase
    /\ \E tag \in CmdTags,
          a \in {[ListOk EXCEPT !.mboxname = p] :
                 p \in {ArchiveStar, ArchivePercent, <<"*">>, <<"%">>}} :
          Apply("LIST", tag, a, imap_cmd_parser_list(ctx, tag, a))

ListInit ==
    /\ ctx = InitCtx
    /\ closed = FALSE
    /\ cfg = [support_tls |-> TRUE, force_tls |-> FALSE,
              max_auth_times |-> MaxAuthCfg]
    /\ hub = {}
    /\ banned = {}
    /\ midb = BareStore
    /\ fs = Files({})
    /\ cmd = [sid |-> Me, name |-> "", tag |-> "", a |-> [bad |-> FALSE],
              info |-> NoInfo, notes |-> NoNotes]
    /\ reply = NoLine
    /\ untagged = <<>>
    /\ peer = NoPeer

ListNext ==
    AliceLogin \/ InboxSelect \/ CreateNamed \/ ListPatterns \/ Flush

SpecList == ListInit /\ [][ListNext]_vars

\* The folders CREATE of Archive/2023/Jan makes, as MIDB names them.
ArchiveFolders ==
    {encode_hex_binary(Archive), encode_hex_binary(Archive2023),
     encode_hex_binary(ArchiveJan)}

\* LIST with the pattern given has been answered while the account held
\* the three folders of Archive/2023/Jan and no other user folder.
ListedArchive(pattern) ==
    /\ cmd.name = "LIST" /\ reply.code = 1711
    /\ cmd.a.mboxname = pattern
    /\ enum_folders(midb) = ArchiveFolders

\* C29 as stated: "Archive/*" is answered with three LIST lines, all for
\* names that begin with "Archive/", and "Archive/%" with the one line
\* of "Archive/2023".
C29_ThreeLinesBelowArchive ==
    /\ ListedArchive(ArchiveStar)
       => /\ Cardinality(cmd.info.names) = 3
          /\ \A n \in cmd.info.names :
                Len(n) > 8 /\ SubSeq(n, 1, 8) = Archive \o <<"/">>
    /\ ListedArchive(ArchivePercent) => cmd.info.names = {Archive2023}

\* C29, amended: CREATE of Archive/2023/Jan in an account without user
\* folders makes Archive, Archive/2023 and Archive/2023/Jan; LIST with
\* "Archive/*" is then answered with the two lines of Archive/2023 and
\* Archive/2023/Jan, and LIST with "Archive/%" with the one line of
\* Archive/2023.
C29_TwoLinesBelowArchive ==
    [][/\ (/\ CtxStep /\ cmd'.name = "CREATE" /\ reply'.code = 1706
           /\ cmd'.a.name = ArchiveJan /\ enum_folders(midb) = {})
          => enum_folders(midb') = ArchiveFolders
       /\ ListedArchive(ArchiveStar)'
          => cmd'.info.names = {Archive2023, ArchiveJan}
       /\ ListedArchive(ArchivePercent)'
          => cmd'.info.names = {Archive2023}]_vars

\* LIST with "Archive/*" has been answered after the CREATE, with two
\* lines.
C29_Witness ==
    /\ ListedArchive(ArchiveStar)
    /\ Cardinality(cmd.info.names) = 2

\* A CREATE whose name holds "%" or "*".
WildCreate ==
    /\ CtxStep /\ cmd'.name = "CREATE"
    /\ \E i \in 1..Len(cmd'.a.name) : cmd'.a.name[i] \in {"%", "*"}

\* C30: CREATE of a name with "%" or "*" is answered with BAD, and
\* leaves MIDB's folders as they were, path prefixes of the name
\* included.
C30_WildcardCreateIsBad ==
    [][WildCreate
       => /\ imap_code_class(reply'.code) = "BAD"
          /\ midb' = midb]_vars

\* ---------------------------------------- the FETCH attributes alone
\* strcasecmp on the attribute words drawn: "fast" is FAST in lower case.
Canon(w) == IF w = "fast" THEN "FAST" ELSE w
Macros == {"ALL", "FAST", "FULL"}
PlainItems ==
    {"BODY", "BODYSTRUCTURE", "ENVELOPE", "FLAGS", "RFC822.HEADER",
     "RFC822.SIZE", "RFC822.TEXT", "UID"}

\* The first loop over the words of the attribute: [ok, b_macro, plist].
\* A word the list holds already is passed over; a word that is no macro,
\* no plain item and no BODY[...] section ends the parse.
RECURSIVE fetch_args_listed(_, _, _, _)
fetch_args_listed(argv, i, b_macro, plist) ==
    IF i > Len(argv) THEN [ok |-> TRUE, b_macro |-> b_macro, plist |-> plist]
    ELSE IF \E j \in 1..Len(plist) : Canon(plist[j]) = Canon(argv[i])
    THEN fetch_args_listed(argv, i + 1, b_macro, plist)
    ELSE IF Canon(argv[i]) \in Macros
    THEN fetch_args_listed(argv, i + 1, TRUE, Append(plist, argv[i]))
    ELSE IF Canon(argv[i]) \in PlainItems \cup {"BODY[]", "BODY.PEEK[]"}
    THEN fetch_args_listed(argv, i + 1, b_macro, Append(plist, argv[i]))
    ELSE [ok |-> FALSE, b_macro |-> b_macro, plist |-> plist]

\* What the second loop appends for the word kw of the list.  kw points
\* into the list's storage; after the two emplace_back calls the list has
\* been reallocated and kw is read again: `stale` is what that read
\* yields, the word itself or other bytes.
macro_tail(kw, stale) ==
    IF Canon(kw) \notin Macros THEN <<>>
    ELSE <<"INTERNALDATE", "RFC822.SIZE">>
         \o (IF stale \in {"ALL", "FULL"} THEN <<"ENVELOPE">> ELSE <<>>)
         \o (IF stale = "FULL" THEN <<"BODY">> ELSE <<>>)

\* The second loop from word i on: the words a macro stands for are
\* appended to the list; the word itself stays (kw = "FLAGS" assigns to
\* the local pointer).
RECURSIVE fetch_args_expanded(_, _, _)
fetch_args_expanded(plist, i, same) ==
    IF i > Len(plist) THEN plist
    ELSE CHOOSE r \in {fetch_args_expanded(x, i + 1, same) : x \in {plist \o macro_tail(plist[i], IF same THEN Canon(plist[i]) ELSE "")}} : TRUE

\* imap_cmd_parser_parse_fetch_args from the words of the attribute:
\* [ok, b_detail, b_data, plist].
parse_fetch_words(argv, same) ==
    CHOOSE r \in
       {IF ~l.ok \/ Len(argv) < 1 \/ (Len(argv) > 1 /\ l.b_macro)
        THEN [ok |-> FALSE, b_detail |-> FALSE, b_data |-> FALSE,
              plist |-> <<>>]
        ELSE [ok |-> TRUE, b_detail |-> p.b_detail \/ l.b_macro,
              b_data |-> p.b_data, plist |-> p.plist]
        : l \in {fetch_args_listed(argv, 1, FALSE, <<"UID">>)},
          p \in {imap_cmd_parser_parse_fetch_args(
                     fetch_args_expanded(
                         fetch_args_listed(argv, 1, FALSE, <<"UID">>).plist,
                         1, same))}} : TRUE

FetchWords ==
    {"ALL", "FAST", "FULL", "fast", "FLAGS", "ENVELOPE", "BODY", "UID",
     "INTERNALDATE", "RFC822.SIZE", "BODY[]", "BOGUS"}

\* One or two words are drawn as the attribute of a FETCH, with what the
\* stale read yields; the parse is applied.
FetchWordsInit ==
    /\ ctx = with_lang(adopt(InitCtx, sql_meta("alice")))
    /\ closed = FALSE
    /\ cfg = [support_tls |-> TRUE, force_tls |-> FALSE,
              max_auth_times |-> MaxAuthCfg]
    /\ hub = {}
    /\ banned = {}
    /\ midb = MailStore(<<>>)
    /\ fs = Files({})
    /\ \E argv \in UpTo(FetchWords, 2) \ {<<>>}, same \in BOOLEAN :
          cmd = [sid |-> Me, name |-> "", tag |-> "",
                 a |-> [bad |-> FALSE, argv |-> argv, same |-> same,
                        parsed |-> [ok |-> FALSE, b_detail |-> FALSE,
                                    b_data |-> FALSE, plist |-> <<>>]],
                 info |-> NoInfo, notes |-> NoNotes]
    /\ reply = NoLine
    /\ untagged = <<>>
    /\ peer = NoPeer

ParseFetchArgs ==
    /\ cmd.name = ""
    /\ cmd' = [cmd EXCEPT
                 !.name = "parse_fetch_args",
                 !.a.parsed = parse_fetch_words(cmd.a.argv, cmd.a.same)]
    /\ UNCHANGED <<ctx, closed, cfg, hub, banned, midb, fs, reply, untagged,
                   peer>>

FetchWordsNext == ParseFetchArgs

SpecFetchWords == FetchWordsInit /\ [][FetchWordsNext]_vars

\* What the macros stand for.
Expansion(macro) ==
    CASE macro = "FAST" -> {"FLAGS", "INTERNALDATE", "RFC822.SIZE"}
      [] macro = "ALL" -> {"FLAGS", "INTERNALDATE", "RFC822.SIZE", "ENVELOPE"}
      [] macro = "FULL" -> {"FLAGS", "INTERNALDATE", "RFC822.SIZE",
                            "ENVELOPE", "BODY"}

\* C31: a FETCH whose attribute is one macro is parsed into UID followed
\* by the items the macro stands for, each once: FLAGS is among them and
\* no macro name is.
C31_MacroExpanded ==
    (/\ cmd.name = "parse_fetch_args"
     /\ Len(cmd.a.argv) = 1 /\ Canon(cmd.a.argv[1]) \in Macros)
    => /\ cmd.a.parsed.ok
       /\ cmd.a.parsed.plist[1] = "UID"
       /\ Len(cmd.a.parsed.plist)
             = 1 + Cardinality(Expansion(Canon(cmd.a.argv[1])))
       /\ {cmd.a.parsed.plist[i] : i \in 2..Len(cmd.a.parsed.plist)}
             = Expansion(Canon(cmd.a.argv[1]))

\* ------------------------------------------- the partial FETCH alone
\* size_t and long, WordBits wide.
SIZE_MOD == 2 ^ WordBits
LONG_MAX == 2 ^ (WordBits - 1) - 1

\* The number a client means by a numeral (RFC 3501 number, decimal).
RECURSIVE Decimal(_, _)
Decimal(s, acc) ==
    IF s = <<>> THEN acc ELSE Decimal(Tail(s), 10 * acc + HexVal(Head(s)))

\* The digits strtol takes in the base, from the front.
RECURSIVE strtol_run(_, _, _)
strtol_run(s, base, acc) ==
    IF s = <<>> \/ HexVal(Head(s)) >= base THEN acc
    ELSE strtol_run(Tail(s), base,
                    IF base * acc + HexVal(Head(s)) > LONG_MAX THEN LONG_MAX
                    ELSE base * acc + HexVal(Head(s)))

\* strtol that reads every numeral in base 10.
strtol_decimal(s) == strtol_run(s, 10, 0)
\* strtol(s, nullptr, 0) on a string of digits: a leading "0" makes the
\* numeral octal; the result stops at LONG_MAX.
strtol(s) ==
    IF Len(s) > 1 /\ Head(s) = "0" THEN strtol_run(Tail(s), 8, 0)
    ELSE strtol_run(s, 10, 0)

\* pstruct_null for a part that exists: [nil, start, length], start the
\* file offset and length the octets of the region; offset is a size_t,
\* length an ssize_t that is -1 when the client gave none.
pstruct_null(part_length, temp_len, offset, length) ==
    LET length1 == IF length = -1 THEN part_length ELSE length
    IN IF offset >= part_length THEN [nil |-> TRUE, start |-> 0, length |-> 0]
       ELSE [nil |-> FALSE, start |-> temp_len + offset,
             length |-> IF (offset + (length1 % SIZE_MOD)) % SIZE_MOD
                              > part_length
                        THEN part_length - offset ELSE length1]

\* BODY[]<N.M> of imap_cmd_parser_process_fetch_item: the two numerals
\* are read with strtol and handed to pstruct_null.
partial_body(part_length, temp_len, n, m) ==
    pstruct_null(part_length, temp_len, strtol(n), strtol(m))

Digits == {"0", "1", "8"}
Numerals == UpTo(Digits, MaxDigits) \ {<<>>}

\* A part of any length a file can have, at a head offset, and the two
\* numerals of the client are drawn; the item is rendered.
PartialInit ==
    /\ ctx = with_lang(adopt(InitCtx, sql_meta("alice")))
    /\ closed = FALSE
    /\ cfg = [support_tls |-> TRUE, force_tls |-> FALSE,
              max_auth_times |-> MaxAuthCfg]
    /\ hub = {}
    /\ banned = {}
    /\ midb = MailStore(<<>>)
    /\ fs = Files({})
    /\ \E n \in Numerals, m \in Numerals, L \in 0..LONG_MAX, t \in {0, 2} :
          cmd = [sid |-> Me, name |-> "", tag |-> "",
                 a |-> [bad |-> FALSE, n |-> n, m |-> m, part_length |-> L,
                        temp_len |-> t,
                        out |-> [nil |-> TRUE, start |-> 0, length |-> 0]],
                 info |-> NoInfo, notes |-> NoNotes]
    /\ reply = NoLine
    /\ untagged = <<>>
    /\ peer = NoPeer

PartialBody ==
    /\ cmd.name = ""
    /\ cmd' = [cmd EXCEPT
                 !.name = "BODY[]<N.M>",
                 !.a.out = partial_body(cmd.a.part_length, cmd.a.temp_len,
                                        cmd.a.n, cmd.a.m)]
    /\ UNCHANGED <<ctx, closed, cfg, hub, banned, midb, fs, reply, untagged,
                   peer>>

PartialNext == PartialBody

SpecPartial == PartialInit /\ [][PartialNext]_vars

Min(x, y) == IF x <= y THEN x ELSE y

\* C32: BODY[]<N.M> on a part of length L is NIL when N >= L; otherwise
\* the region starts at offset N of the part and has min(M, L - N)
\* octets.
C32_PartialClamped ==
    cmd.name = "BODY[]<N.M>"
    => IF Decimal(cmd.a.n, 0) >= cmd.a.part_length
       THEN cmd.a.out.nil
       ELSE /\ ~cmd.a.out.nil
            /\ cmd.a.out.start = cmd.a.temp_len + Decimal(cmd.a.n, 0)
            /\ cmd.a.out.length = Min(Decimal(cmd.a.m, 0),
                                      cmd.a.part_length - Decimal(cmd.a.n, 0))


\* ------------------------------------- APPEND in a line and by literal
CodesNext == AliceLogin \/ AppendLine \/ AppendBegin \/ AppendEnd

SpecCodes == AppendInit /\ [][CodesNext]_vars

\* The end of a literal APPEND came to the MIME parser, which refused
\* the message.
UnparsedAtEnd ==
    /\ cmd.name = "APPEND end"
    /\ cmd.a.fstat_ok /\ cmd.a.read_ok /\ ~cmd.a.parse_ok

\* C33: an APPEND whose message cannot be parsed is answered with the
\* same reply code by the end of the literal path as by the handler of
\* the APPEND given in one line.
C33_UnparsedBodySameCode ==
    UnparsedAtEnd
    => reply.code = imap_cmd_parser_append(ctx, cmd.tag,
                       [LineOk EXCEPT !.parse_ok = FALSE]).ret.code


\* ---------------------------------------------- the reply formatter alone
\* The packed codes handlers return: a number of the reply table (or 0)
\* with one of the three actions, or what m2icode makes of an errno of
\* MIDB; with or without DISPATCH_TAG.
PackedCodes ==
    {Ret(code, act, t) :
       code \in {0, 1705, 1800, 1907}, act \in {"CONTINUE", "BREAK", "CLOSE"},
       t \in BOOLEAN}
    \cup {MRet(m2icode("RESULT_ERROR", e), act, t) :
            e \in {0, 1, MIDB_E_NO_FOLDER},
            act \in {"CONTINUE", "BREAK", "CLOSE"}, t \in BOOLEAN}

\* A session with or without a saved tag is handed a packed code, for a
\* command with a tag or without arguments.
DvalInit ==
    /\ \E saved \in {"", "a1"} : ctx = [InitCtx EXCEPT !.tag_string = saved]
    /\ closed = FALSE
    /\ cfg = [support_tls |-> TRUE, force_tls |-> FALSE,
              max_auth_times |-> MaxAuthCfg]
    /\ hub = {}
    /\ banned = {}
    /\ midb = MailStore(<<>>)
    /\ fs = Files({})
    /\ \E ret \in PackedCodes, argtag \in {"", "a3"} :
          cmd = [sid |-> Me, name |-> "", tag |-> argtag,
                 a |-> [bad |-> FALSE, ret |-> ret,
                        out |-> [line |-> NoLine, act |-> ""]],
                 info |-> NoInfo, notes |-> NoNotes]
    /\ reply = NoLine
    /\ untagged = <<>>
    /\ peer = NoPeer

Dval ==
    /\ cmd.name = ""
    /\ cmd' = [cmd EXCEPT
                 !.name = "dval",
                 !.a.out = imap_cmd_parser_dval(ctx, cmd.tag, cmd.a.ret)]
    /\ UNCHANGED <<ctx, closed, cfg, hub, banned, midb, fs, reply, untagged,
                   peer>>

DvalNext == Dval

SpecDval == DvalInit /\ [][DvalNext]_vars

\* C34: dval returns the action of the packed code; it writes a line
\* exactly when the reply-code field is not 0; the line has the saved
\* tag ("BUG" for an empty one) when DISPATCH_TAG is set, and else the
\* tag of the command, or "*" for a command without arguments; and the
\* line has NO [TRYCREATE] only for an errno of MIDB that says the
\* folder does not exist.
C34_DvalUnpacks ==
    cmd.name = "dval"
    => /\ cmd.a.out.act = cmd.a.ret.act
       /\ (cmd.a.out.line = NoLine) <=> (cmd.a.ret.code = 0)
       /\ cmd.a.out.line # NoLine
          => /\ cmd.a.out.line.tag =
                   IF cmd.a.ret.tag
                   THEN (IF ctx.tag_string = "" THEN "BUG" ELSE ctx.tag_string)
                   ELSE IF cmd.tag = "" THEN "*" ELSE cmd.tag
             /\ cmd.a.out.line.text = "NO [TRYCREATE]"
                => cmd.a.ret.midb /\ cmd.a.ret.code = MIDB_E_NO_FOLDER

\* A deferred reply with the error of a missing folder went out under
\* the saved tag, with NO [TRYCREATE].
C34_Witness ==
    /\ cmd.name = "dval" /\ cmd.a.ret.tag /\ cmd.tag = "a3"
    /\ cmd.a.ret.midb /\ cmd.a.ret.code = MIDB_E_NO_FOLDER
    /\ cmd.a.out.line = Line("a1", 1907, "NO [TRYCREATE]")
    /\ cmd.a.out.act = "BREAK"


FixedFolders == {S_inbox, S_draft, S_sent, S_trash, S_junk}
FixedStore ==
    [folders |-> FixedFolders, subs |-> {},
     mails |-> [f \in FixedFolders |-> <<>>],
     uidnext |-> [f \in FixedFolders |-> 1]]

\* The names a client gives: fixed folders under their identifier and
\* under their client name, a user name, and one level below each.
FolderNames ==
    {t \o p : t \in {INBOX, S_inbox, S_sent,
                      foldername_get(default_lang, "SENT"), New},
              p \in {<<>>, <<"/", "N">>}}

FoldersInit ==
    /\ ctx = InitCtx
    /\ closed = FALSE
    /\ cfg = [support_tls |-> TRUE, force_tls |-> FALSE,
              max_auth_times |-> MaxAuthCfg]
    /\ hub = {}
    /\ banned = {}
    /\ midb = FixedStore
    /\ fs = Files({})
    /\ cmd = [sid |-> Me, name |-> "", tag |-> "", a |-> [bad |-> FALSE],
              info |-> NoInfo, notes |-> NoNotes]
    /\ reply = NoLine
    /\ untagged = <<>>
    /\ peer = NoPeer

\* While the store has fewer than MaxFolders folders of the user.
CreateAny ==
    /\ CommandPhase
    /\ Cardinality(midb.folders) < Cardinality(FixedFolders) + MaxFolders
    /\ \E tag \in CmdTags, n \in FolderNames, o \in {MidbOk, MidbDown} :
          Apply("CREATE", tag, [NameOk EXCEPT !.name = n, !.o2 = o],
                imap_cmd_parser_create(ctx, [NameOk EXCEPT !.name = n,
                                                           !.o2 = o]))

DeleteAny ==
    /\ CommandPhase
    /\ \E tag \in CmdTags, n \in FolderNames :
          Apply("DELETE", tag, [NameOk EXCEPT !.name = n],
                imap_cmd_parser_delete(ctx, [NameOk EXCEPT !.name = n]))

RenameAny ==
    /\ CommandPhase
    /\ \E tag \in CmdTags, n \in FolderNames,
          n2 \in {S_sent, foldername_get(default_lang, "SENT"), New} :
          Apply("RENAME", tag, [NameOk EXCEPT !.name = n, !.name2 = n2],
                imap_cmd_parser_rename(ctx, [NameOk EXCEPT !.name = n,
                                                           !.name2 = n2]))

FoldersNext == AliceLogin \/ CreateAny \/ DeleteAny \/ RenameAny

SpecFolders == FoldersInit /\ [][FoldersNext]_vars

\* C36: no CREATE, DELETE or RENAME calls make_folder, remove_folder or
\* rename_folder (for the old or the new name) with inbox, draft, sent,
\* trash or junk.
C36_FixedFoldersNeverPassed ==
    cmd.name \in {"CREATE", "DELETE", "RENAME"}
    => \A i \in 1..Len(cmd.info.calls) :
          cmd.info.calls[i].folder \notin FixedFolders


\* The tagged OK of SELECT or EXAMINE was written.
SelexOk ==
    reply.text \in {"OK [READ-WRITE] SELECT completed",
                    "OK [READ-ONLY] EXAMINE completed"}

\* C37: after a SELECT or EXAMINE the session is in select, with a
\* folder and registered with the hub, exactly when the command was
\* answered with its tagged OK; after any other reply no folder is
\* selected and the session is not registered, and it is in auth if it
\* was authenticated.
C37_SelectedIffOk ==
    [][(cmd'.name \in {"SELECT", "EXAMINE"} /\ CtxStep)
       => /\ (ctx'.proto_stat = "select") <=> SelexOk'
          /\ SelexOk' => (ctx'.selected_folder # <<>> /\ Me \in hub'
                          /\ reply'.tag = cmd'.tag)
          /\ ~SelexOk' => /\ ctx'.selected_folder = <<>> /\ Me \notin hub'
                          /\ is_authed(ctx) => ctx'.proto_stat = "auth"
      ]_vars


\* C38: every reply to a LOGIN has the tag of that LOGIN.
C38_LoginReplyOwnTag ==
    (cmd.name = "LOGIN" /\ reply # NoLine) => reply.tag = cmd.tag


\* The UIDs a set of the trailer names, in the order it is written; a
\* star reads as top.
RECURSIVE SetUids(_, _)
SetUids(set, top) ==
    IF set = <<>> THEN <<>>
    ELSE LET r == star_resolved(Head(set), top)
             lo == Min(r.lo, r.hi)
             hi == IF r.lo <= r.hi THEN r.hi ELSE r.lo
         IN [i \in 1..(hi - lo + 1) |-> lo + i - 1] \o SetUids(Tail(set), top)

\* The source UIDs of the COPYUID trailer just written.
CopyuidSource ==
    SetUids(cmd.info.src,
            LET xs == MailsOf(midb, ctx.selected_folder)
            IN IF xs = <<>> THEN 0 ELSE xs[Len(xs)].uid)

\* C39: in a COPYUID trailer the source set and the destination set
\* name the same number of UIDs, and the i-th destination UID is that
\* of the copy of the message with the i-th source UID.
C39_CopyuidPairwise ==
    (cmd.name \in {"COPY", "UID COPY"} /\ reply.text = "COPYUID")
    => /\ Len(CopyuidSource) = Len(cmd.info.pairs)
       /\ \A i \in 1..Len(cmd.info.pairs) :
             \E x \in {MailsOf(midb, ctx.selected_folder)[j] :
                         j \in 1..Len(MailsOf(midb, ctx.selected_folder))},
                y \in {MailsOf(midb, encode_hex_binary(Work))[j] :
                         j \in 1..Len(MailsOf(midb, encode_hex_binary(Work)))} :
                /\ i <= Len(CopyuidSource) /\ x.uid = CopyuidSource[i]
                /\ y.uid = cmd.info.pairs[i][2] /\ y.mid = x.mid


\* --------------------------------- SELECT while others deliver mail
\* SELECT and EXAMINE of the inbox with up to MaxAppends messages
\* delivered between the two MIDB calls, while the inbox has room; the
\* view refresh answering or failing.
RacingArgs ==
    {[InboxOk EXCEPT !.between = n, !.o2 = o] :
        n \in 0..MaxAppends, o \in {MidbOk, MidbDown}}

InboxRoom == midb.uidnext[S_inbox] <= 2 * MaxMails + MaxAppends

SelectRacing == InboxRoom /\ SelectWith(RacingArgs)
ExamineRacing == InboxRoom /\ ExamineWith(RacingArgs)

RaceNext == AliceLogin \/ SelectRacing \/ ExamineRacing

SpecRace == CopyInit /\ [][RaceNext]_vars

\* C40: the UIDNEXT a SELECT or EXAMINE reports is above the UID of
\* every message of the view the command built.
C40_UidnextAboveView ==
    (cmd.name \in {"SELECT", "EXAMINE"} /\ SelexOk)
    => \A i \in 1..Len(ctx.contents.m_vec) :
          ctx.contents.m_vec[i].uid < cmd.info.uidnext

====
